---- MODULE Spec2Model ----
(***************************************************************************)
(* Episode pipeline and batch coordinator of the podcast analyzer          *)
(* (backend/app/routers/analysis.py and the services it calls).            *)
(*                                                                         *)
(* The persisted state is the episodes table and the episode_analyses      *)
(* table.  A commit writes exactly the columns the code assigned since the *)
(* previous commit (SQLAlchemy's unit of work issues UPDATE for the        *)
(* modified attributes only), so a column another session changed in the   *)
(* meantime keeps that other value.  Handlers and background tasks are     *)
(* coroutines of one event loop: a step of the model is the code between   *)
(* two suspension points.  Time is counted in whole days.                  *)
(***************************************************************************)
EXTENDS Integers, Sequences, FiniteSets, TLC

\* ---------------------------------------------------------------- bounds
\* process_episode invocations added over a behaviour.
MaxTasks == 2
\* Rows of the episodes table when the entry points are taken one call at
\* a time from every table content.
NumRows == 2
\* Digests created over a behaviour.
MaxDigests == 1
\* CHUNK_SIZE of SummarizerService (80000 characters), scaled down.
ChunkSize == 3
\* Longest transcript handed to _chunk_transcript.
MaxTranscript == 5
\* Most colon-separated parts of a duration text.
MaxParts == 4
\* The entries of one parsed feed.
MaxEntries == 2

\* ------------------------------------------------------ program constants
DAY_DAYS == 1
WEEK_DAYS == 7
TWO_WEEKS_DAYS == 14
THREE_WEEKS_DAYS == 21
MONTH_DAYS == 30
OVERVIEW_LIMIT == 500

\* The podcasts table: its ids.
Podcasts == {1, 2}

\* Python's None in a nullable text column / local variable.
None == "<None>"
\* A null published_at (DateTime column without a value).
NoDate == -1

Min(a, b) == IF a <= b THEN a ELSE b

\* str.startswith
StartsWith(s, p) == Len(s) >= Len(p) /\ SubSeq(s, 1, Len(p)) = p

\* s[:n]
Take(s, n) == SubSeq(s, 1, Min(Len(s), n))

\* Python truthiness of an Optional[str]
Truthy(s) == s # None /\ s # ""

\* ------------------------------------------------------------ JSON values
JNull == [t |-> "null"]
JStr(s) == [t |-> "str", v |-> s]
JList(l) == [t |-> "list", v |-> l]
JObj(f) == [t |-> "obj", v |-> f]

IsDict(x) == x.t = "obj"
IsList(x) == x.t = "list"

\* dict.get(key, default)
Get(d, key, default) == IF key \in DOMAIN d.v THEN d.v[key] ELSE default

ListFields ==
  {"key_points", "topics", "themes", "predictions", "recommendations",
   "advice", "notable_quotes"}

\* ---------------------------------------------- language-model responses
\* A response text together with what the extraction layers can see in it:
\*   wrap = "bare"   the text is one JSON document (or an attempt at one)
\*   wrap = "fenced" a fenced code block holding a brace-delimited span
\*   wrap = "prose"  free text holding a brace-delimited span
\*   wrap = "none"   no brace-delimited span at all
\* valid: json.loads accepts the document / the span; body: what it yields.
MkResponse(text, wrap, valid, body) ==
  [text |-> text, wrap |-> wrap, valid |-> valid, body |-> body]

FullObject ==
  JObj("overview" :> JStr("ov") @@ "summary" :> JStr("long summary") @@
       "key_points" :> JList(<<"k1">>) @@ "topics" :> JList(<<"tp">>) @@
       "themes" :> JList(<<>>) @@ "predictions" :> JList(<<>>) @@
       "recommendations" :> JList(<<"r1">>) @@ "advice" :> JList(<<>>) @@
       "notable_quotes" :> JList(<<"q1">>))

NullFieldObject ==
  JObj("overview" :> JStr("ov") @@ "summary" :> JStr("long summary") @@
       "key_points" :> JNull @@ "topics" :> JList(<<"tp">>) @@
       "themes" :> JList(<<>>) @@ "predictions" :> JNull @@
       "recommendations" :> JList(<<>>) @@ "advice" :> JList(<<>>) @@
       "notable_quotes" :> JList(<<>>))

SparseObject == JObj("overview" :> JStr("ov"))

RespFull == MkResponse("{full}", "bare", TRUE, FullObject)
RespNullField == MkResponse("{nullfield}", "bare", TRUE, NullFieldObject)
RespSparse == MkResponse("<fence>json {sparse} <fence>", "fenced", TRUE, SparseObject)
RespArray == MkResponse("[1, 2]", "bare", TRUE, JList(<<"1", "2">>))
RespProse == MkResponse("Sure: {full} hope it helps", "prose", TRUE, FullObject)
RespGarbage == MkResponse("I cannot {help", "prose", FALSE, JNull)
RespEmpty == MkResponse("", "none", FALSE, JNull)

Responses == {RespFull, RespNullField, RespSparse, RespArray}

\* SummarizerService._parse_json_response: the default structure
DefaultStructure(response) ==
  JObj("overview" :> JStr(IF response.text # ""
                            THEN Take(response.text, OVERVIEW_LIMIT)
                            ELSE "Analysis failed") @@
       "key_points" :> JList(<<>>) @@ "topics" :> JList(<<>>) @@
       "themes" :> JList(<<>>) @@ "predictions" :> JList(<<>>) @@
       "recommendations" :> JList(<<>>) @@ "advice" :> JList(<<>>) @@
       "notable_quotes" :> JList(<<>>) @@
       "summary" :> JStr(response.text))

\* SummarizerService._parse_json_response
_parse_json_response(response) ==
  IF response.wrap = "bare" /\ response.valid
    THEN response.body                      \* json.loads(response)
  ELSE IF response.wrap = "fenced" /\ response.valid
    THEN response.body                      \* json.loads(json_match.group(1))
  ELSE IF response.wrap \in {"fenced", "prose"} /\ response.valid
    THEN response.body                      \* json.loads(json_match.group(0))
  ELSE DefaultStructure(response)

\* The value a StructuredAnalysis field takes from result.get(key, default):
\* strings are kept as their text, everything else as the JSON value.
PyText(x) == IF x.t = "str" THEN x.v ELSE IF x.t = "null" THEN None ELSE "<non-str>"

\* SummarizerService._analyze_single / _analyze_chunked, after the final
\* model call returned `response`: [raised |-> TRUE] when result.get fails
\* (the parsed document is not a dict), else the StructuredAnalysis.
StructuredAnalysis(response) ==
  LET result == _parse_json_response(response) IN
  IF ~IsDict(result)
    THEN [raised |-> TRUE,
          message |-> "list object has no attribute get"]
    ELSE [raised |-> FALSE,
          overview |-> PyText(Get(result, "overview", JStr(""))),
          lists |-> [k \in ListFields |-> Get(result, k, JList(<<>>))],
          raw_summary |-> PyText(Get(result, "summary", JStr("")))]

\* ---------------------------------------------------- text, by character
\* \s: white space
SpaceChars == {" ", "\t", "\n"}

\* s[i], or "" past the end of s
At(s, i) == IF i >= 1 /\ i <= Len(s) THEN SubSeq(s, i, i) ELSE ""

\* The least element of a set of positions, 0 when the set is empty.
First(S) == IF S = {} THEN 0 ELSE CHOOSE j \in S : \A k \in S : j <= k

\* The greatest element of a set of positions, 0 when the set is empty.
Last(S) == IF S = {} THEN 0 ELSE CHOOSE j \in S : \A k \in S : j >= k

\* ------------------------------------------------------ _chunk_transcript
RECURSIVE SplitFrom(_, _)
\* str.split() from position i on: the maximal runs without white space
SplitFrom(s, i) ==
  LET k == First({j \in i..Len(s) : At(s, j) \notin SpaceChars}) IN
  IF k = 0 THEN <<>>
  ELSE LET sp == First({j \in k..Len(s) : At(s, j) \in SpaceChars})
           e == IF sp = 0 THEN Len(s) + 1 ELSE sp
       IN <<SubSeq(s, k, e - 1)>> \o SplitFrom(s, e)

Split(s) == SplitFrom(s, 1)

RECURSIVE Join(_)
\* " ".join(words)
Join(words) ==
  IF words = <<>> THEN ""
  ELSE IF Len(words) = 1 THEN words[1]
  ELSE words[1] \o " " \o Join(Tail(words))

RECURSIVE ChunkLoop(_, _, _, _, _)
\* summarizer.py lines 109-120: the loop from the i-th word on, and the
\* final flush
ChunkLoop(words, i, chunks, current_chunk, current_length) ==
  IF i > Len(words)
    THEN IF current_chunk # <<>> THEN Append(chunks, Join(current_chunk))
         ELSE chunks
  ELSE LET word_len == Len(words[i]) + 1 IN
       IF current_length + word_len > ChunkSize
         THEN ChunkLoop(words, i + 1, Append(chunks, Join(current_chunk)),
                        <<words[i]>>, word_len)
         ELSE ChunkLoop(words, i + 1, chunks, Append(current_chunk, words[i]),
                        current_length + word_len)

\* SummarizerService._chunk_transcript
_chunk_transcript(transcript) ==
  IF Len(transcript) <= ChunkSize THEN <<transcript>>
  ELSE ChunkLoop(Split(transcript), 1, <<>>, <<>>, 0)

\* ------------------------------------------------------------------ state
VARIABLES
  episodes,   \* episodes table: id -> row (models.Episode)
  analysis,   \* episode_analyses table: episode_id -> row or NoRow
  tasks,      \* process_episode invocations added with add_task, in order
  files,      \* transient audio files present in the temp directory
  lastCall,   \* the batch_analyze call, if the most recent entry-point
              \* call was one: the rows it selected, the episodes it
              \* added a task for
  returned,   \* the body the most recent entry-point call returned, kept
              \* only where a specification records it
  digests,    \* digests table: id -> row (models.Digest) together with its
              \* DigestEpisode rows and its process_digest invocation
  probe,      \* the argument and the result of one call of a text function
  podcasts    \* podcasts table: id -> row (models.Podcast)

vars == <<episodes, analysis, tasks, files, lastCall, returned, digests, probe,
          podcasts>>

\* The ids of the episodes table.
Episodes == DOMAIN episodes

NoRow == [present |-> FALSE]

Statuses == {"pending", "processing", "completed", "failed"}
Steps == {"starting", "downloading", "transcribing", "analyzing"}

\* Results the external collaborators can produce.
Transcripts == {"tA", "tB"}
DownloadErrors == {"Client error 404 Not Found"}
TranscribeErrors == {"whisper failed"}
ModelErrors == {"rate limit exceeded"}

\* Position of a process_episode invocation: where it is suspended.  The
\* code between two suspension points runs without any other coroutine of
\* the event loop in between, so it is one step, however many commits it
\* makes; the three external calls are the suspension points.
\*   queued       added with add_task, not yet run
\*   downloading  suspended in audio_service.download_audio (line 46)
\*   transcribing in transcription_service.transcribe (line 51)
\*   analyzing    suspended in summarizer_service.analyze (line 58)
\*   done         returned or raised
Running == {"downloading", "transcribing", "analyzing"}
InFlight == Running \cup {"queued"}

\* What the model keeps of an invocation: its locals (audio_path, 0 while
\* unset; transcript) and, for the properties, whether its transient file
\* was created, how many times it was unlinked, how the run ended, the
\* stage that raised, the exception's message, the values it has
\* committed to processing_step, in the order of the commits, and how many
\* times it has called download_audio, transcribe, analyze and, inside
\* analyze, client.messages.create.
NewTask(e) ==
  [episode |-> e, pc |-> "queued", audio_path |-> 0, transcript |-> None,
   created |-> FALSE, unlinks |-> 0, outcome |-> "none", stage |-> "none",
   message |-> None, steps |-> <<>>,
   downloads |-> 0, transcriptions |-> 0, analyses |-> 0, model_calls |-> 0]

TaskIds == 1..Len(tasks)

\* ----------------------------------------------------- AudioService.cleanup
\* Removes the file when the path is set and the file exists.
\* Yields <<files', number of unlink calls made>>.
\* Faulty variant: a cleanup that never unlinks.
cleanup_leaves_file(file_path, fs) == <<fs, 0>>

cleanup(file_path, fs) ==
  IF file_path # 0 /\ file_path \in fs
    THEN <<fs \ {file_path}, 1>>
    ELSE <<fs, 0>>

\* --------------------------------------------------------- process_episode
\* Faulty variant: a missing episode ends the invocation as a failure.
missing_episode_raises(task) ==
  [task EXCEPT !.pc = "done", !.outcome = "failed", !.stage = "load",
               !.message = "Episode not found"]

\* Lines 30-31, `if not episode: return`: the invocation is over, nothing
\* was called and nothing raised.
NoEpisode(task) == [task EXCEPT !.pc = "done", !.outcome = "missing"]

\* lines 27-46: load the episode; status = processing, step = starting,
\* commit; step = downloading, commit; download_audio runs up to its first
\* suspension, mkstemp having created the transient file (audio.py line 28).
\* Faulty variant: the run commits "downloading" without "starting" first.
starts_at_downloading == <<"downloading">>

\* lines 34-35 and 44-45: the steps committed before the download is awaited
StepsAtStart == <<"starting", "downloading">>

\* Faulty variant: a run on a row that holds a transcript goes on from it.
resumes_from_transcript(row) ==
  IF row.transcript # None THEN "analyzing" ELSE "downloading"

\* lines 41-46: the stage a run enters first, whatever the row holds.
FirstStage(row) == "downloading"

\* Lines 30-31: no row has the id, the invocation returns at once.
TaskStart(t) ==
  /\ tasks[t].pc = "queued"
  /\ IF tasks[t].episode \notin Episodes
       THEN /\ tasks' = [tasks EXCEPT ![t] = NoEpisode(@)]
            /\ UNCHANGED <<episodes, files>>
       ELSE /\ LET e == tasks[t].episode IN
                 episodes' = [episodes EXCEPT ![e].status = "processing",
                                              ![e].processing_step = "downloading"]
            /\ files' = files \cup {t}
            /\ tasks' = [tasks EXCEPT ![t].pc = FirstStage(episodes[tasks[t].episode]),
                                      ![t].created = TRUE,
                                      ![t].steps = StepsAtStart,
                                      ![t].downloads = @ + 1]
  /\ UNCHANGED <<analysis, lastCall, returned>>

\* Faulty variant: the bare exception message as the summary.
summary_without_prefix(message) == message

\* line 98: the summary the failure path stores.
ErrorSummary(message) == "Error: " \o message

\* Faulty variant: the failure path leaves the status the run wrote.
failure_leaves_processing == "processing"

\* line 96
FailedStatus == "failed"

\* lines 95-104: the failure path and the finally block of one run.
\* `fs`, `n`: the files and the unlink count as the failing stage left them.
FailurePath(t, message, stage, fs, n) ==
  LET e == tasks[t].episode
      c == cleanup(tasks[t].audio_path, fs)
  IN /\ episodes' = [episodes EXCEPT ![e].status = FailedStatus,
                                     ![e].processing_step = None,
                                     ![e].summary = ErrorSummary(message)]
     /\ files' = c[1]
     /\ tasks' = [tasks EXCEPT ![t].pc = "done", ![t].outcome = "failed",
                               ![t].stage = stage, ![t].message = message,
                               ![t].transcript = None,
                               ![t].unlinks = n + c[2],
                               ![t].steps = Append(@, None)]

\* download_audio returns the path (audio.py line 43); lines 49-50.
DownloadOk(t) ==
  /\ tasks[t].pc = "downloading"
  /\ LET e == tasks[t].episode IN
       episodes' = [episodes EXCEPT ![e].processing_step = "transcribing"]
  /\ tasks' = [tasks EXCEPT ![t].pc = "transcribing", ![t].audio_path = t,
                            ![t].steps = Append(@, "transcribing"),
                            ![t].transcriptions = @ + 1]
  /\ UNCHANGED <<analysis, files, lastCall, returned>>

\* download_audio raises (HTTP error, oversized body, network failure):
\* audio.py lines 44-48 unlink the file if it exists and re-raise;
\* audio_path of process_episode is still unset.
DownloadFail(t, message) ==
  /\ tasks[t].pc = "downloading"
  /\ LET gone == IF t \in files THEN <<files \ {t}, 1>> ELSE <<files, 0>>
     IN FailurePath(t, message, "download", gone[1], tasks[t].unlinks + gone[2])
  /\ UNCHANGED <<analysis, lastCall, returned>>

\* transcribe returns the text: lines 52-53 commit the transcript, lines
\* 56-58 commit step = analyzing and call analyze, which chunks the
\* transcript and awaits its first language-model call.
\* transcription.py lines 56-58: a missing file raises FileNotFoundError.
TranscribeOk(t, text) ==
  /\ tasks[t].pc = "transcribing"
  /\ tasks[t].audio_path \in files
  /\ LET e == tasks[t].episode IN
       episodes' = [episodes EXCEPT ![e].transcript = text,
                                    ![e].processing_step = "analyzing"]
  /\ tasks' = [tasks EXCEPT ![t].pc = "analyzing", ![t].transcript = text,
                            ![t].steps = Append(@, "analyzing"),
                            ![t].analyses = @ + 1, ![t].model_calls = @ + 1]
  /\ UNCHANGED <<analysis, files, lastCall, returned>>

TranscribeFail(t, message) ==
  /\ tasks[t].pc = "transcribing"
  /\ FailurePath(t, message, "transcribe", files, tasks[t].unlinks)
  /\ UNCHANGED <<analysis, lastCall, returned>>

\* Faulty variant: a new row is added whether or not the episode has one.
always_inserts(existing, result) ==
  [present |-> TRUE, rows |-> (IF existing.present THEN existing.rows ELSE 0) + 1,
   overview |-> result.overview, lists |-> result.lists]

\* lines 64-89: the upsert of the EpisodeAnalysis row. `existing` is the
\* episode's entry of the table before, `rows` the number of rows that
\* carry the episode's id: the row found is overwritten (lines 68-76),
\* otherwise one is added (lines 78-89).
Upsert(existing, result) ==
  [present |-> TRUE, rows |-> IF existing.present THEN existing.rows ELSE 1,
   overview |-> result.overview, lists |-> result.lists]

\* summarizer.py lines 126-131 and 160-211: the language-model calls one
\* analyze makes when none raises: one for a single chunk, otherwise one
\* per chunk and the synthesis call.
ModelCalls(transcript) ==
  LET n == Len(_chunk_transcript(transcript))
  IN IF n = 1 THEN 1 ELSE n + 1

\* summarizer.py lines 180-185: the call for a chunk returns, its parsed
\* answer is kept for the synthesis prompt, and the next call is awaited.
ChunkReturn(t) ==
  /\ tasks[t].pc = "analyzing"
  /\ tasks[t].model_calls < ModelCalls(tasks[t].transcript)
  /\ tasks' = [tasks EXCEPT ![t].model_calls = @ + 1]
  /\ UNCHANGED <<episodes, analysis, files, lastCall, returned>>

\* analyze returns, its last language-model call having returned: lines
\* 58-93, then the finally block (lines 102-104).
\* When building the StructuredAnalysis raises, the failure path runs.
AnalyzeReturn(t, response) ==
  /\ tasks[t].pc = "analyzing"
  /\ tasks[t].model_calls = ModelCalls(tasks[t].transcript)
  /\ LET e == tasks[t].episode
         result == StructuredAnalysis(response)
         c == cleanup(tasks[t].audio_path, files)
     IN IF result.raised
          THEN /\ FailurePath(t, result.message, "analyze", files, tasks[t].unlinks)
               /\ UNCHANGED analysis
          ELSE /\ episodes' = [episodes EXCEPT ![e].summary = result.raw_summary,
                                               ![e].status = "completed",
                                               ![e].processing_step = None]
               /\ analysis' = [analysis EXCEPT ![e] = Upsert(@, result)]
               /\ files' = c[1]
               /\ tasks' = [tasks EXCEPT ![t].pc = "done",
                                         ![t].outcome = "completed",
                                         ![t].stage = "persist",
                                         ![t].transcript = None,
                                         ![t].unlinks = @ + c[2],
                                         ![t].steps = Append(@, None)]
  /\ UNCHANGED <<lastCall, returned>>

\* Faulty variant: a language-model call that raised is made again.
model_call_retried(t, message) ==
  /\ tasks' = [tasks EXCEPT ![t].model_calls = @ + 1]
  /\ UNCHANGED <<episodes, files>>

\* summarizer.py lines 135, 180, 211: nothing catches the exception of
\* messages.create, it leaves analyze and reaches line 95.
ModelCallRaised(t, message) ==
  FailurePath(t, message, "analyze", files, tasks[t].unlinks)

\* The language-model call in flight raises (timeout, auth, rate limit).
AnalyzeFail(t, message) ==
  /\ tasks[t].pc = "analyzing"
  /\ ModelCallRaised(t, message)
  /\ UNCHANGED <<analysis, lastCall, returned>>

\* ---------------------------------------------------------- entry points
\* Optional[list[int]] and its truthiness: {} is None, {l} is the list l.
NoList == {}
SomeList(l) == {l}
ListTruthy(o) == \E l \in o : Len(l) > 0
ListHas(o, x) == \E l \in o : \E i \in 1..Len(l) : l[i] = x

RECURSIVE Ascending(_)
\* The ids of a set of rows in ascending order.
Ascending(S) ==
  IF S = {} THEN <<>>
  ELSE LET m == CHOOSE x \in S : \A y \in S : x <= y
       IN <<m>> \o Ascending(S \ {m})

Range(q) == {q[i] : i \in 1..Len(q)}

\* lastCall when the latest entry-point call was not a batch_analyze.
NoCall == [op |-> "none", episode_ids |-> <<>>, enqueued |-> {}, again |-> FALSE]

\* analyze_episode, lines 111-154: what it does to the tables and the
\* task list, and the AnalysisStatus it returns.
AnalyzeOutcome(podcast_id, episode_id) ==
  IF ~(/\ episode_id \in Episodes
       /\ episodes[episode_id].podcast_id = podcast_id)
    THEN [admit |-> FALSE, status |-> "404", message |-> "Episode not found"]
  ELSE IF episodes[episode_id].status = "processing"
    THEN [admit |-> FALSE, status |-> "processing",
          message |-> "Analysis already in progress"]
  ELSE IF /\ episodes[episode_id].status = "completed"
          /\ Truthy(episodes[episode_id].summary)
    THEN [admit |-> FALSE, status |-> "completed",
          message |-> "Analysis already completed"]
  ELSE [admit |-> TRUE, status |-> "processing", message |-> "Analysis started"]

analyze_episode(podcast_id, episode_id) ==
  LET out == AnalyzeOutcome(podcast_id, episode_id)
  IN /\ IF out.admit
          THEN /\ Len(tasks) < MaxTasks
               /\ tasks' = Append(tasks, NewTask(episode_id))
               /\ episodes' =
                    [episodes EXCEPT ![episode_id].status = "processing"]
          ELSE UNCHANGED <<episodes, tasks>>
     /\ lastCall' = NoCall
     /\ UNCHANGED <<analysis, files>>

AnalyzeResponse(podcast_id, episode_id) ==
  LET out == AnalyzeOutcome(podcast_id, episode_id)
  IN [op |-> "analyze", episode_id |-> episode_id, status |-> out.status,
      message |-> out.message]

\* get_period_dates, lines 157-182: <<start, end>>, NoDate for None.
get_period_dates(period, start_date, end_date, now) ==
  IF period = "latest" THEN <<NoDate, NoDate>>
  ELSE IF period = "custom"
    THEN <<start_date, IF end_date # NoDate THEN end_date ELSE now>>
  ELSE IF period = "day" THEN <<now - DAY_DAYS, now>>
  ELSE IF period = "week" THEN <<now - WEEK_DAYS, now>>
  ELSE IF period = "2weeks" THEN <<now - TWO_WEEKS_DAYS, now>>
  ELSE IF period = "3weeks" THEN <<now - THREE_WEEKS_DAYS, now>>
  ELSE IF period = "month" THEN <<now - MONTH_DAYS, now>>
  ELSE <<NoDate, NoDate>>

\* The subquery of lines 205-208: max(published_at) of a podcast's episodes
\* (SQL max skips NULLs and is NULL when there is nothing else).
max_date(podcast) ==
  LET dates == {episodes[e].published_at : e \in
                  {x \in Episodes : /\ episodes[x].podcast_id = podcast
                                    /\ episodes[x].published_at # NoDate}}
  IN IF dates = {} THEN NoDate
     ELSE CHOOSE d \in dates : \A o \in dates : o <= d

\* The query of lines 196-220: the selected episode ids.
\* A comparison with a NULL published_at is not true in SQL.
SelectEpisodes(request, now) ==
  LET dates == get_period_dates(request.period, request.start_date,
                                request.end_date, now)
      start == dates[1]
      end == dates[2]
      filtered == {e \in Episodes :
                     ListTruthy(request.podcast_ids)
                       => ListHas(request.podcast_ids, episodes[e].podcast_id)}
  IN IF request.period = "latest"
       THEN {e \in filtered :
               /\ episodes[e].published_at # NoDate
               /\ max_date(episodes[e].podcast_id) # NoDate
               /\ episodes[e].published_at = max_date(episodes[e].podcast_id)}
     ELSE IF start # NoDate
       THEN {e \in filtered :
               /\ episodes[e].published_at # NoDate
               /\ episodes[e].published_at >= start
               /\ (end # NoDate => episodes[e].published_at <= end)}
     ELSE filtered

\* Faulty variants: admission of rows that are already processing, or of
\* failed rows.
admits_processing(row) == row.status \in {"pending", "processing"}

admits_failed(row) == row.status \in {"pending", "failed"}

\* The admission test of line 231.
Admits(row) == row.status = "pending"

\* batch_analyze, lines 186-244: the tables and the task list.
\* lastCall.again: this call directly follows (task steps aside) a
\* batch_analyze over the same selection that added tasks.
batch_analyze(request, now) ==
  LET selected == SelectEpisodes(request, now)
      admitted == {e \in selected : Admits(episodes[e])}
      order == Ascending(admitted)
  IN /\ Len(tasks) + Cardinality(admitted) <= MaxTasks
     /\ episodes' = [e \in Episodes |->
                       IF e \in admitted
                         THEN [episodes[e] EXCEPT !.status = "processing"]
                         ELSE episodes[e]]
     /\ tasks' = tasks \o [i \in 1..Len(order) |-> NewTask(order[i])]
     /\ lastCall' =
          [op |-> "batch", episode_ids |-> Ascending(selected),
           enqueued |-> admitted,
           again |-> /\ lastCall.op = "batch"
                     /\ lastCall.episode_ids = Ascending(selected)
                     /\ lastCall.enqueued # {}]
     /\ UNCHANGED <<analysis, files>>

\* Faulty variant: the count of rows that were processing before the call.
processing_before_the_call(processing, pending) == processing

\* line 240: the processing count of the response.
NowProcessing(processing, pending) == processing + pending

\* batch_analyze, lines 222-244: the BatchAnalysisStatus it returns.
BatchResponse(request, now) ==
  LET selected == SelectEpisodes(request, now)
      count(st) == Cardinality({e \in selected : episodes[e].status = st})
  IN [op |-> "batch",
      total_episodes |-> Cardinality(selected),
      pending |-> count("pending"),
      processing |-> NowProcessing(count("processing"), count("pending")),
      completed |-> count("completed"),
      failed |-> count("failed"),
      episode_ids |-> Ascending(selected)]

\* Faulty variant: only the rows in processing count as stuck.
stuck_processing_only == {e \in Episodes : episodes[e].status = "processing"}

\* reset_stuck_episodes, lines 248-257: the rows of the query.
Stuck == {e \in Episodes : episodes[e].status \in {"processing", "failed"}}

\* Faulty variant: the reset also clears what the earlier run stored.
reset_clears_run_data(row) ==
  [row EXCEPT !.status = "pending", !.processing_step = None,
              !.summary = None, !.transcript = None]

\* lines 253-255: the two assignments to a stuck row.
ResetRow(row) == [row EXCEPT !.status = "pending", !.processing_step = None]

reset_stuck_episodes ==
  /\ episodes' = [e \in Episodes |->
                    IF e \in Stuck THEN ResetRow(episodes[e]) ELSE episodes[e]]
  /\ lastCall' = NoCall
  /\ UNCHANGED <<analysis, tasks, files>>

ResetResponse == [op |-> "reset", reset |-> Cardinality(Stuck)]

NoResponse == [op |-> "none"]

\* No text function has been called.
NoProbe == [kind |-> "none"]

\* ------------------------------------------------------- inputs and specs
PublishDates == {NoDate, 30, 39}
Clock == {40}
Periods == {"latest", "day", "week", "2weeks", "3weeks", "month", "custom"}
PodcastIdLists ==
  {NoList, SomeList(<<>>)} \cup {SomeList(<<p>>) : p \in Podcasts}
    \cup {SomeList(<<1, 2>>)}
Requests ==
  [period : Periods \ {"custom"}, start_date : {NoDate}, end_date : {NoDate},
   podcast_ids : PodcastIdLists]
  \cup
  [period : {"custom"}, start_date : {NoDate, 35}, end_date : {NoDate, 35},
   podcast_ids : PodcastIdLists]

\* The requests the pipeline specification issues.
PipelineRequests ==
  {r \in Requests : /\ r.period = "latest"
                    /\ r.podcast_ids \in {NoList, SomeList(<<1>>)}}

\* The podcasts table of the specifications that start from ingested
\* episodes: the two podcasts of the episodes, each with its feed.
TwoPodcasts == <<[feed_url |-> "u1"], [feed_url |-> "u2"]>>

\* A row as the feed ingestion creates it (models.py line 33: pending).
NewEpisode(podcast, published) ==
  [podcast_id |-> podcast, published_at |-> published, status |-> "pending",
   processing_step |-> None, transcript |-> None, summary |-> None]

\* Two freshly ingested episodes, one per podcast, nothing processed.
Init ==
  /\ episodes = <<NewEpisode(1, 30), NewEpisode(2, 39)>>
  /\ analysis = <<NoRow, NoRow>>
  /\ tasks = <<>>
  /\ files = {}
  /\ lastCall = NoCall
  /\ returned = NoResponse
  /\ digests = <<>>
  /\ podcasts = TwoPodcasts
  /\ probe = NoProbe

TaskStep ==
  \E t \in TaskIds :
    \/ TaskStart(t)
    \/ DownloadOk(t)
    \/ \E m \in DownloadErrors : DownloadFail(t, m)
    \/ \E x \in Transcripts : TranscribeOk(t, x)
    \/ \E m \in TranscribeErrors : TranscribeFail(t, m)
    \/ \E r \in Responses : AnalyzeReturn(t, r)
    \/ \E m \in ModelErrors : AnalyzeFail(t, m)

\* The entry points as the pipeline sees them: the responses go to the
\* callers and are not kept.
EntryPoint ==
  /\ \/ \E p \in Podcasts, e \in Episodes : analyze_episode(p, e)
     \/ \E r \in PipelineRequests, now \in Clock : batch_analyze(r, now)
     \/ reset_stuck_episodes
  /\ UNCHANGED returned

Next ==
  \/ TaskStep /\ UNCHANGED <<digests, probe, podcasts>>
  \/ EntryPoint /\ UNCHANGED <<digests, probe, podcasts>>

Spec == Init /\ [][Next]_vars

\* One run from its start, on transcripts below and above the chunk
\* threshold: one word per chunk, a word longer than a chunk, white space
\* only.
RunTranscripts == {"tA", "ab cd", "ab cd ef", "a b c", "abcd", "abcde", "    "}

\* analyze_episode has admitted one of the two episodes.
InitRun ==
  /\ \E e \in 1..2 :
       /\ episodes = [<<NewEpisode(1, 30), NewEpisode(2, 39)>>
                        EXCEPT ![e].status = "processing"]
       /\ tasks = <<NewTask(e)>>
  /\ analysis = <<NoRow, NoRow>>
  /\ files = {}
  /\ lastCall = NoCall
  /\ returned = NoResponse
  /\ digests = <<>>
  /\ podcasts = TwoPodcasts
  /\ probe = NoProbe

RunStep ==
  \E t \in TaskIds :
    \/ TaskStart(t)
    \/ DownloadOk(t)
    \/ \E m \in DownloadErrors : DownloadFail(t, m)
    \/ \E x \in RunTranscripts : TranscribeOk(t, x)
    \/ \E m \in TranscribeErrors : TranscribeFail(t, m)
    \/ ChunkReturn(t)
    \/ \E r \in Responses : AnalyzeReturn(t, r)
    \/ \E m \in ModelErrors : AnalyzeFail(t, m)

NextRun == RunStep /\ UNCHANGED <<digests, probe, podcasts>>

SpecRun == InitRun /\ [][NextRun]_vars

\* The values of processing_step a run that died had committed last: none
\* (admitted, not started), lines 34-35, 44-45, 49-50, 56-57.
StepsAtDeath == {None, "starting", "downloading", "transcribing", "analyzing"}

\* The row of a run that died with the process at the given step; the
\* transcript is committed before the step "analyzing" (lines 52-53).
DiedAt(row, step) ==
  [row EXCEPT !.status = "processing", !.processing_step = step,
              !.transcript = IF step = "analyzing" THEN "tA" ELSE None]

\* The application after a restart: the runs of the dead process are gone
\* (BackgroundTasks live in memory), their rows are as they were committed.
InitRestart ==
  /\ \E step \in StepsAtDeath :
       episodes = <<DiedAt(NewEpisode(1, 30), step), NewEpisode(2, 39)>>
  /\ analysis = <<NoRow, NoRow>>
  /\ tasks = <<>>
  /\ files = {}
  /\ lastCall = NoCall
  /\ returned = NoResponse
  /\ digests = <<>>
  /\ podcasts = TwoPodcasts
  /\ probe = NoProbe

SpecRestart == InitRestart /\ [][Next]_vars

\* An external call of run t returns or raises and the run goes on to its
\* next suspension point or to its end.
ReturnStep(t) ==
  /\ t \in TaskIds
  /\ \/ DownloadOk(t)
     \/ \E m \in DownloadErrors : DownloadFail(t, m)
     \/ \E x \in Transcripts : TranscribeOk(t, x)
     \/ \E m \in TranscribeErrors : TranscribeFail(t, m)
     \/ \E r \in Responses : AnalyzeReturn(t, r)
     \/ \E m \in ModelErrors : AnalyzeFail(t, m)
  /\ UNCHANGED <<digests, probe, podcasts>>

\* The pipeline when every external call that a run awaits eventually
\* returns or raises, and the event loop then resumes the run.
SpecLive == Spec /\ \A t \in 1..MaxTasks : WF_vars(ReturnStep(t))

\* ----------------------------------------------- one call on every table
\* The table contents a restart of the service can find: rows as ingested,
\* rows a finished run left completed or failed, rows a run that never
\* finished left in processing.  No task is in memory after a restart.
RowsOf(podcast, published) ==
  LET fresh == NewEpisode(podcast, published) IN
  { fresh,
    [fresh EXCEPT !.status = "processing", !.processing_step = "downloading"],
    [fresh EXCEPT !.status = "completed", !.transcript = "tA",
                  !.summary = "long summary"],
    [fresh EXCEPT !.status = "failed",
                  !.summary = "Error: Client error 404 Not Found"] }

StoredRows ==
  UNION {RowsOf(p, d) : p \in Podcasts, d \in PublishDates}

InitCalls ==
  /\ episodes \in [1..NumRows -> StoredRows]
  /\ analysis = [e \in 1..NumRows |->
                   IF episodes[e].status = "completed"
                     THEN Upsert(NoRow, StructuredAnalysis(RespFull))
                     ELSE NoRow]
  /\ tasks = <<>>
  /\ files = {}
  /\ lastCall = NoCall
  /\ returned = NoResponse
  /\ digests = <<>>
  /\ podcasts = TwoPodcasts
  /\ probe = NoProbe

CallAnalyze(p, e) ==
  /\ returned = NoResponse
  /\ analyze_episode(p, e)
  /\ returned' = AnalyzeResponse(p, e)
  /\ UNCHANGED <<digests, probe, podcasts>>

CallBatch(r, now) ==
  /\ returned = NoResponse
  /\ batch_analyze(r, now)
  /\ returned' = BatchResponse(r, now)
  /\ UNCHANGED <<digests, probe, podcasts>>

CallReset ==
  /\ returned = NoResponse
  /\ reset_stuck_episodes
  /\ returned' = ResetResponse
  /\ UNCHANGED <<digests, probe, podcasts>>

NextCalls ==
  \/ \E p \in Podcasts, e \in Episodes : CallAnalyze(p, e)
  \/ \E r \in Requests, now \in Clock : CallBatch(r, now)
  \/ CallReset

SpecCalls == InitCalls /\ [][NextCalls]_vars

\* ============================================================== digests
\* routers/digests.py and services/digest.py.
\* A process_digest invocation suspends at the language-model call and at
\* the image call of generate_digest; everything else runs between them.

\* digests.py get_period_dates, lines 17-43.
digest_period_dates(period, start_date, end_date, now) ==
  IF period = "custom"
    THEN <<IF start_date # NoDate THEN start_date ELSE now - WEEK_DAYS,
           IF end_date # NoDate THEN end_date ELSE now>>
  ELSE IF period = "latest" THEN <<now - DAY_DAYS, now>>
  ELSE IF period = "day" THEN <<now - DAY_DAYS, now>>
  ELSE IF period = "week" THEN <<now - WEEK_DAYS, now>>
  ELSE IF period = "2weeks" THEN <<now - TWO_WEEKS_DAYS, now>>
  ELSE IF period = "3weeks" THEN <<now - THREE_WEEKS_DAYS, now>>
  ELSE IF period = "month" THEN <<now - MONTH_DAYS, now>>
  ELSE <<now - WEEK_DAYS, now>>

\* The list-valued columns of a digest (DigestResult, digest.py lines 44-49).
DigestListFields ==
  {"common_themes", "trends", "predictions", "recommendations", "key_advice",
   "action_items"}

\* The list-valued columns of a digest that was never synthesised.
NoTexts == [k \in DigestListFields |-> JNull]

\* create_digest, lines 196-212: the row its two commits leave, with the
\* statuses it has held (log), and the invocation added with add_task:
\*   pc         queued, synthesizing, painting, done
\*   links      the episode ids of its DigestEpisode rows, in row order
\*   collected  episodes_with_analysis
\*   result     the parsed synthesis answer
\*   prompt     the image prompt composed by generate_digest
\*   outcome, stage, message, synth_calls: how the run ended, the stage that
\*   raised, the exception message, the number of calls of generate_digest.
\*   steps      the values its run has committed to processing_step, in the
\*              order of the commits, a repeated value once
NewDigest(start, end, podcast_ids) ==
  [period_start |-> start, period_end |-> end, podcast_ids |-> podcast_ids,
   status |-> "processing", log |-> <<"pending", "processing">>,
   processing_step |-> None, processing_detail |-> None,
   summary |-> None, episode_count |-> 0, texts |-> NoTexts,
   image_url |-> None, image_prompt |-> None, links |-> <<>>,
   pc |-> "queued", collected |-> {}, result |-> JNull, prompt |-> None,
   outcome |-> "none", stage |-> "none", message |-> None, synth_calls |-> 0,
   steps |-> <<>>]

DigestIds == 1..Len(digests)

\* An assignment to digest.status followed by a commit.
SetStatus(row, st) ==
  [row EXCEPT !.status = st,
              !.log = IF @[Len(@)] = st THEN @ ELSE Append(@, st)]

\* lines 66-75: the completed episodes of the period and the podcast filter.
CollectEpisodes(row) ==
  {e \in Episodes :
     /\ episodes[e].status = "completed"
     /\ episodes[e].published_at # NoDate
     /\ episodes[e].published_at >= row.period_start
     /\ episodes[e].published_at <= row.period_end
     /\ ListTruthy(row.podcast_ids)
          => ListHas(row.podcast_ids, episodes[e].podcast_id)}

\* Faulty variant: every collected episode is linked.
with_or_without_analysis(S) == S

\* line 82: those of them that have an analysis row.
WithAnalysis(S) == {e \in S : analysis[e].present}

\* Faulty variant: a row is added at every progress commit of the loop.
link_rows_twice(found) == Ascending(found) \o Ascending(found)

\* lines 101-106: one DigestEpisode row for each episode of the loop that
\* has an analysis.
LinkRows(found) == Ascending(found)

\* Faulty variant: the message generate_digest has for an empty list.
generate_digest_empty_message == "No episodes to analyze."

\* line 119.
NoEpisodesSummary == "No analyzed episodes found in this time period."

\* Faulty variant: the bare exception message as the summary.
digest_summary_without_prefix(message) == message

\* line 162.
DigestErrorSummary(message) == "Error: " \o message

\* Faulty variant: the count includes the digest itself.
ep_count_plus_one(collected) == Cardinality(collected) + 1

\* line 125: ep_count.
EpCount(collected) == Cardinality(collected)

\* lines 158-164: the failure path of process_digest.
DigestFailure(row, message, stage) ==
  [SetStatus(row, "failed") EXCEPT
     !.processing_step = None, !.processing_detail = None,
     !.summary = DigestErrorSummary(message),
     !.pc = "done", !.outcome = "failed", !.stage = stage,
     !.message = message, !.steps = Append(@, None)]

\* Faulty variant: a failed image call fails the digest.
completed_unless_image_failed(row, url) ==
  IF url = None
    THEN DigestFailure(row, "image generation failed", "image")
    ELSE [SetStatus(row, "completed") EXCEPT !.image_url = url, !.pc = "done"]

\* lines 143-156: the result of generate_digest (digest.py lines 250-260)
\* stored in the row.
Completed(row, url) ==
  [SetStatus(row, "completed") EXCEPT
     !.summary = PyText(Get(row.result, "summary", JStr(""))),
     !.texts = [k \in DigestListFields |-> Get(row.result, k, JList(<<>>))],
     !.image_url = url, !.image_prompt = row.prompt,
     !.episode_count = EpCount(row.collected),
     !.processing_step = None, !.processing_detail = None,
     !.pc = "done", !.outcome = "completed", !.stage = "persist",
     !.steps = Append(@, None)]

\* lines 57-132: collection, up to the call of generate_digest or to the
\* ending without episodes (lines 115-122).
DigestStart(d) ==
  LET row == digests[d]
      found == WithAnalysis(CollectEpisodes(row))
  IN /\ row.pc = "queued"
     /\ digests' = [digests EXCEPT ![d] =
          IF found = {}
            THEN [SetStatus(row, "completed") EXCEPT
                    !.processing_step = None, !.processing_detail = None,
                    !.summary = NoEpisodesSummary, !.episode_count = 0,
                    !.pc = "done", !.outcome = "completed",
                    !.stage = "no episodes",
                    !.steps = <<"collecting_episodes", None>>]
            ELSE [SetStatus(row, "processing") EXCEPT
                    !.processing_step = "generating_content",
                    !.processing_detail = "Claude is synthesising insights",
                    !.links = @ \o LinkRows(found), !.collected = found,
                    !.pc = "synthesizing", !.synth_calls = @ + 1,
                    !.steps = <<"collecting_episodes", "generating_content">>]]
     /\ UNCHANGED <<episodes, analysis, tasks, files, lastCall, returned, probe, podcasts>>

\* The query of line 75 raises, or a commit of the loop of lines 81-111
\* does after the rows of the earlier episodes were committed.
DigestCollectFail(d, message) ==
  /\ digests[d].pc = "queued"
  /\ \E n \in 0..Cardinality(WithAnalysis(CollectEpisodes(digests[d]))) :
       digests' = [digests EXCEPT ![d] =
         [DigestFailure(@, message, "collect") EXCEPT
            !.steps = <<"collecting_episodes", None>>,
            !.links = @ \o SubSeq(LinkRows(WithAnalysis(CollectEpisodes(digests[d]))),
                                  1, n)]]
  /\ UNCHANGED <<episodes, analysis, tasks, files, lastCall, returned, probe, podcasts>>

\* ------------------------------------------------- image prompt and artist
\* digest.py ARTISTS, lines 16-37: the names, each with the first phrase of
\* its style description.
ARTISTS ==
  { [name |-> "Wassily Kandinsky", style |-> "Bold geometric shapes, vibrant primary colours"],
    [name |-> "Vincent van Gogh", style |-> "Thick swirling impasto brushstrokes"],
    [name |-> "Salvador Dali", style |-> "Hyper-realistic surrealist dreamscape"],
    [name |-> "Katsushika Hokusai", style |-> "Japanese ukiyo-e woodblock print"],
    [name |-> "Gustav Klimt", style |-> "Art Nouveau gold leaf"],
    [name |-> "Jackson Pollock", style |-> "Abstract expressionist action painting"],
    [name |-> "Egon Schiele", style |-> "Viennese expressionism"],
    [name |-> "J.M.W. Turner", style |-> "Romantic sublime"],
    [name |-> "Roy Lichtenstein", style |-> "Bold black comic-strip outlines"],
    [name |-> "Edvard Munch", style |-> "Nordic expressionism"],
    [name |-> "Georges Seurat", style |-> "Pointillist technique"],
    [name |-> "Hieronymus Bosch", style |-> "Flemish Renaissance grotesque"],
    [name |-> "Frida Kahlo", style |-> "Mexican folk art fused with surrealism"],
    [name |-> "Mark Rothko", style |-> "Colour field abstraction"],
    [name |-> "Edward Hopper", style |-> "American realism"],
    [name |-> "Utagawa Hiroshige", style |-> "Japanese woodblock landscape"],
    [name |-> "Paul Gauguin", style |-> "Post-impressionist palette"],
    [name |-> "Umberto Boccioni", style |-> "Italian Futurism"],
    [name |-> "Alphonse Mucha", style |-> "Czech Art Nouveau"],
    [name |-> "Kazimir Malevich", style |-> "Russian Suprematism"] }

\* digests.py ARTISTS, line 12.
RegenerateArtists == {"Kandinsky", "Monet", "Picasso", "van Gogh", "Dali", "Klee"}

\* digest.py line 240.
ImagePrompt(artist, description) ==
  "Painting in the style of " \o artist.name \o ". " \o artist.style
    \o ". Scene: " \o description \o ". No text, no words, no letters."

\* The regular expression of digests.py line 313, character by character.
\* \w: letters, digits and the underscore; \s: white space.
WordChars ==
  {"a", "b", "c", "d", "e", "f", "g", "h", "i", "j", "k", "l", "m", "n", "o",
   "p", "q", "r", "s", "t", "u", "v", "w", "x", "y", "z",
   "A", "B", "C", "D", "E", "F", "G", "H", "I", "J", "K", "L", "M", "N", "O",
   "P", "Q", "R", "S", "T", "U", "V", "W", "X", "Y", "Z",
   "0", "1", "2", "3", "4", "5", "6", "7", "8", "9", "_"}

CharAt(s, i) == SubSeq(s, i, i)

Marker == "style of "

\* The first position from i on that holds no [\w\s] character.
RunEnd(s, i) ==
  LET stops == {j \in i..Len(s) : CharAt(s, j) \notin WordChars \cup SpaceChars}
  IN IF stops = {} THEN Len(s) + 1
     ELSE CHOOSE j \in stops : \A k \in stops : j <= k

\* The last position of a match of the pattern starting at i, 0 if none:
\* the marker, one or more [\w\s] characters, then "." or ",".
MatchEnd(s, i) ==
  IF i + Len(Marker) - 1 <= Len(s) /\ SubSeq(s, i, i + Len(Marker) - 1) = Marker
    THEN LET from == i + Len(Marker)
             j == RunEnd(s, from)
         IN IF j > from /\ j <= Len(s) /\ CharAt(s, j) \in {".", ","}
              THEN j ELSE 0
    ELSE 0

RECURSIVE RegexSub(_, _, _)
\* re.sub: every match, left to right, replaced by repl.
RegexSub(s, i, repl) ==
  LET starts == {k \in i..Len(s) : MatchEnd(s, k) > 0}
  IN IF i > Len(s) THEN ""
     ELSE IF starts = {} THEN SubSeq(s, i, Len(s))
     ELSE LET k == CHOOSE x \in starts : \A y \in starts : x <= y
          IN SubSeq(s, i, k - 1) \o repl \o RegexSub(s, MatchEnd(s, k) + 1, repl)

\* regenerate_image, line 313.
new_prompt(image_prompt, new_artist) ==
  RegexSub(image_prompt, 1, "style of " \o new_artist \o ".")

\* ------------------------------------------------------- digest synthesis
DigestObject ==
  JObj("summary" :> JStr("digest summary") @@
       "common_themes" :> JList(<<"th">>) @@ "trends" :> JList(<<"tr">>) @@
       "predictions" :> JList(<<>>) @@ "recommendations" :> JList(<<"r1">>) @@
       "key_advice" :> JList(<<>>) @@ "action_items" :> JList(<<"a1">>))

ImageDescriptions ==
  {"a foggy harbour at dawn", "a harbour in the style of old maps, at dawn"}

DigestObjectWithImage(description) ==
  JObj(DigestObject.v @@ "image_description" :> JStr(description))

DigestResponses ==
  { MkResponse("{digest}", "bare", TRUE,
               DigestObjectWithImage("a foggy harbour at dawn")),
    MkResponse("<fence>json {digest without image} <fence>", "fenced", TRUE,
               DigestObject),
    MkResponse("[1, 2]", "bare", TRUE, JList(<<"1", "2">>)),
    MkResponse("I cannot {help", "prose", FALSE, JNull) }

\* DigestService._parse_json_response, digest.py lines 88-109.
digest_parse_json_response(response) ==
  IF response.wrap = "bare" /\ response.valid
    THEN response.body
  ELSE IF response.wrap = "fenced" /\ response.valid
    THEN response.body
  ELSE IF response.wrap \in {"fenced", "prose"} /\ response.valid
    THEN response.body
  ELSE JObj(<<>>)

\* digest.py line 236: result.get("image_description") is truthy.
ImageWanted(result) ==
  LET d == Get(result, "image_description", JNull)
  IN d.t = "str" /\ d.v # ""

DigestCollectErrors == {"database is locked"}
SynthErrors == {"overloaded"}
ImageUrls == {None, "data:image/png;base64,AAAA"}

\* Faulty variant: the callback reports the collection step.
callback_reports_collecting == "collecting_episodes"

\* digests.py lines 137-139: the step the progress callback commits.
CallbackStep == "generating_image"

\* The language-model call of generate_digest returns (digest.py lines
\* 231-244): the answer is parsed, the prompt composed, the image requested;
\* without an image description generate_digest returns at once and lines
\* 143-156 of process_digest store the result.
SynthReturn(d, response, artist) ==
  LET row == digests[d]
      result == digest_parse_json_response(response)
  IN /\ row.pc = "synthesizing"
     /\ digests' = [digests EXCEPT ![d] =
          IF ~IsDict(result)
            THEN DigestFailure(row, "list object has no attribute get", "synth")
          ELSE IF ImageWanted(result)
            THEN [row EXCEPT
                    !.result = result,
                    !.prompt = ImagePrompt(artist, result.v["image_description"].v),
                    !.processing_step = CallbackStep,
                    !.processing_detail = "Painting in the style of " \o artist.name,
                    !.pc = "painting", !.steps = Append(@, CallbackStep)]
          ELSE Completed([row EXCEPT !.result = result], None)]
     /\ UNCHANGED <<episodes, analysis, tasks, files, lastCall, returned, probe, podcasts>>

\* The language-model call raises.
SynthFail(d, message) ==
  /\ digests[d].pc = "synthesizing"
  /\ digests' = [digests EXCEPT ![d] = DigestFailure(@, message, "synth")]
  /\ UNCHANGED <<episodes, analysis, tasks, files, lastCall, returned, probe, podcasts>>

\* _generate_image_gemini returns a data URI, or None for every failure
\* (digest.py lines 113-157); lines 143-156 of process_digest.
ImageReturn(d, url) ==
  /\ digests[d].pc = "painting"
  /\ digests' = [digests EXCEPT ![d] = Completed(@, url)]
  /\ UNCHANGED <<episodes, analysis, tasks, files, lastCall, returned, probe, podcasts>>

\* create_digest, lines 171-226.
create_digest(request, now) ==
  LET dates == digest_period_dates(request.period, request.start_date,
                                   request.end_date, now)
  IN /\ Len(digests) < MaxDigests
     /\ digests' = Append(digests, NewDigest(dates[1], dates[2], request.podcast_ids))
     /\ UNCHANGED <<episodes, analysis, tasks, files, lastCall, returned, probe, podcasts>>

\* Faulty variant: regenerating the image puts the digest back to processing.
regenerated_reopens(row, url, prompt) ==
  [SetStatus(row, "processing") EXCEPT !.image_url = url, !.image_prompt = prompt]

\* Faulty variant: a regeneration stores the new asset but not its prompt.
regenerated_keeps_prompt(row, url, prompt) == [row EXCEPT !.image_url = url]

\* lines 320-321.
Regenerated(row, url, prompt) ==
  [row EXCEPT !.image_url = url, !.image_prompt = prompt]

\* What a call of regenerate_image answers: the status code, the artist
\* line 312 chose, the prompt stored before the call, the prompt handed to
\* generate_image_for_prompt (None when the call was not made) and the body.
RegenerateResponse(digest_id, code, new_artist, stored, sent, url) ==
  [op |-> "regenerate", digest_id |-> digest_id, status_code |-> code,
   new_artist |-> new_artist, stored |-> stored, sent |-> sent,
   image_url |-> url, image_prompt |-> IF url = None THEN None ELSE sent]

\* regenerate_image, lines 304-323: 404 and 400 and a failed image call
\* (500) change nothing.
regenerate_image(digest_id, new_artist, new_url) ==
  /\ IF digest_id \notin DigestIds
       THEN /\ digests' = digests
            /\ returned' = RegenerateResponse(digest_id, 404, None, None, None, None)
     ELSE IF ~Truthy(digests[digest_id].image_prompt)
       THEN /\ digests' = digests
            /\ returned' = RegenerateResponse(digest_id, 400, None,
                              digests[digest_id].image_prompt, None, None)
     ELSE LET stored == digests[digest_id].image_prompt
              sent == new_prompt(stored, new_artist)
          IN IF new_url = None
               THEN /\ digests' = digests
                    /\ returned' = RegenerateResponse(digest_id, 500, new_artist,
                                      stored, sent, None)
               ELSE /\ digests' = [digests EXCEPT ![digest_id] =
                                     Regenerated(@, new_url, sent)]
                    /\ returned' = RegenerateResponse(digest_id, 200, new_artist,
                                      stored, sent, new_url)
  /\ UNCHANGED <<episodes, analysis, tasks, files, lastCall, probe, podcasts>>

\* --------------------------------------------- the digest specification
DigestRequests ==
  {r \in Requests : /\ r.period \in {"day", "week"}
                    /\ r.podcast_ids \in {NoList, SomeList(<<1>>)}}

\* The artists the digest specification draws.
DigestArtists == {a \in ARTISTS : a.name \in {"Wassily Kandinsky", "J.M.W. Turner"}}
DigestRegenerateArtists == {"Monet", "Klee"}

\* A completed episode as a run of process_episode leaves it.
CompletedEpisode(podcast, published) ==
  [NewEpisode(podcast, published) EXCEPT !.status = "completed",
     !.transcript = "tA", !.summary = "long summary"]

\* An episode completed before the episode_analyses table existed: it has
\* the plain summary only (analysis.py line 60, digests.py line 82).
LegacyEpisode(podcast, published) ==
  [CompletedEpisode(podcast, published) EXCEPT !.summary = "legacy summary"]

\* Episode tables the digests are made from: completed episodes of two
\* podcasts inside and outside the periods, one without a date, one
\* pending, one without an analysis.
DigestTables ==
  { <<CompletedEpisode(1, 39), CompletedEpisode(2, 30), NewEpisode(1, 39)>>,
    <<CompletedEpisode(1, 39), LegacyEpisode(1, 39), CompletedEpisode(2, 39)>>,
    <<LegacyEpisode(1, 39), NewEpisode(2, 39)>>,
    <<CompletedEpisode(1, 39), CompletedEpisode(1, 35), CompletedEpisode(2, 39)>>,
    <<CompletedEpisode(2, 39), CompletedEpisode(1, NoDate), NewEpisode(1, 39)>>,
    <<CompletedEpisode(1, 30), NewEpisode(2, 39)>> }

InitDigest ==
  /\ episodes \in DigestTables
  /\ analysis = [e \in DOMAIN episodes |->
                   IF /\ episodes[e].status = "completed"
                      /\ episodes[e].summary # "legacy summary"
                     THEN Upsert(NoRow, StructuredAnalysis(RespFull))
                     ELSE NoRow]
  /\ tasks = <<>>
  /\ files = {}
  /\ lastCall = NoCall
  /\ returned = NoResponse
  /\ digests = <<>>
  /\ podcasts = TwoPodcasts
  /\ probe = NoProbe

NextDigest ==
  \/ \E r \in DigestRequests, now \in Clock : create_digest(r, now)
  \/ \E d \in DigestIds : DigestStart(d)
  \/ \E d \in DigestIds, m \in DigestCollectErrors : DigestCollectFail(d, m)
  \/ \E d \in DigestIds, r \in DigestResponses, a \in DigestArtists :
       SynthReturn(d, r, a)
  \/ \E d \in DigestIds, m \in SynthErrors : SynthFail(d, m)
  \/ \E d \in DigestIds, u \in ImageUrls : ImageReturn(d, u)
  \/ \E d \in DigestIds, a \in DigestRegenerateArtists, u \in ImageUrls :
       regenerate_image(d, a, u)

SpecDigest == InitDigest /\ [][NextDigest]_vars

\* ============================================ text functions, by character
\* The extraction layers of both _parse_json_response methods, computed on
\* the response text itself.  A backquote is written "~" in the texts below.
Fence == "~~~"

\* s has the text p at position i
HasAt(s, i, p) == i >= 1 /\ i + Len(p) - 1 <= Len(s) /\ SubSeq(s, i, i + Len(p) - 1) = p

\* \s* from i: the first position that holds no white space
SkipWs(s, i) ==
  LET j == First({k \in i..Len(s) : At(s, k) \notin SpaceChars})
  IN IF j = 0 THEN Len(s) + 1 ELSE j

\* json.loads on the subset of JSON the texts use: objects, arrays and
\* strings without escapes.  A parse yields [ok, val, next]; ok = FALSE is
\* json.JSONDecodeError.
NoParse == [ok |-> FALSE]
Parsed(val, next) == [ok |-> TRUE, val |-> val, next |-> next]

\* a string starting at the quote at position i
ParseString(s, i) ==
  LET j == First({k \in (i + 1)..Len(s) : At(s, k) = "\""})
  IN IF At(s, i) # "\"" \/ j = 0 THEN NoParse
     ELSE Parsed(JStr(SubSeq(s, i + 1, j - 1)), j + 1)

RECURSIVE ParseValue(_, _)
RECURSIVE ParseMembers(_, _, _)
RECURSIVE ParseItems(_, _, _)

\* the members of an object from the key at position i on; of two equal
\* keys the later one wins, as in a Python dict
ParseMembers(s, i, acc) ==
  LET k == ParseString(s, i) IN
  IF ~k.ok THEN NoParse
  ELSE LET c == SkipWs(s, k.next) IN
  IF At(s, c) # ":" THEN NoParse
  ELSE LET v == ParseValue(s, SkipWs(s, c + 1)) IN
  IF ~v.ok THEN NoParse
  ELSE LET e == SkipWs(s, v.next)
           now == [x \in DOMAIN acc \cup {k.val.v} |->
                     IF x = k.val.v THEN v.val ELSE acc[x]]
       IN IF At(s, e) = "}" THEN Parsed(JObj(now), e + 1)
          ELSE IF At(s, e) = "," THEN ParseMembers(s, SkipWs(s, e + 1), now)
          ELSE NoParse

\* the items of an array from the value at position i on
ParseItems(s, i, acc) ==
  LET v == ParseValue(s, i) IN
  IF ~v.ok THEN NoParse
  ELSE LET e == SkipWs(s, v.next)
           now == Append(acc, v.val)
       IN IF At(s, e) = "]" THEN Parsed(JList(now), e + 1)
          ELSE IF At(s, e) = "," THEN ParseItems(s, SkipWs(s, e + 1), now)
          ELSE NoParse

\* one JSON value starting at position i
ParseValue(s, i) ==
  IF At(s, i) = "\"" THEN ParseString(s, i)
  ELSE IF At(s, i) = "{"
    THEN LET j == SkipWs(s, i + 1)
         IN IF At(s, j) = "}" THEN Parsed(JObj(<<>>), j + 1)
            ELSE ParseMembers(s, j, <<>>)
  ELSE IF At(s, i) = "["
    THEN LET j == SkipWs(s, i + 1)
         IN IF At(s, j) = "]" THEN Parsed(JList(<<>>), j + 1)
            ELSE ParseItems(s, j, <<>>)
  ELSE NoParse

\* json.loads(s): one value, white space around it, nothing else
json_loads(s) ==
  LET v == ParseValue(s, SkipWs(s, 1)) IN
  IF v.ok /\ SkipWs(s, v.next) = Len(s) + 1 THEN v ELSE NoParse

\* r'```(?:json)?\s*(\{.*?\})\s*```' tried at the fence at position p: the
\* first and last position of group 1, <<0, 0>> if the pattern fails there.
FencedAt(s, p) ==
  LET tagged == IF HasAt(s, p + 3, "json") THEN SkipWs(s, p + 7) ELSE 0
      plain == SkipWs(s, p + 3)
      b == IF tagged > 0 /\ At(s, tagged) = "{" THEN tagged
           ELSE IF At(s, plain) = "{" THEN plain ELSE 0
      e == First({k \in (b + 1)..Len(s) :
                    At(s, k) = "}" /\ HasAt(s, SkipWs(s, k + 1), Fence)})
  IN IF ~HasAt(s, p, Fence) \/ b = 0 \/ e = 0 THEN <<0, 0>> ELSE <<b, e>>

\* re.search of that pattern: group 1 of the leftmost match, None if none
FencedGroup(s) ==
  LET p == First({k \in 1..Len(s) : FencedAt(s, k)[1] > 0})
  IN IF p = 0 THEN None
     ELSE SubSeq(s, FencedAt(s, p)[1], FencedAt(s, p)[2])

\* the next brace from position i on, 0 if none
NextBrace(s, i) == First({k \in i..Len(s) : At(s, k) \in {"{", "}"}})

RECURSIVE NestedScan(_, _)
\* r'\{[^{}]*(?:\{[^{}]*\}[^{}]*)*\}' after the brace at position j: the
\* closing brace of the match, 0 if the pattern fails.
NestedScan(s, j) ==
  LET c == NextBrace(s, j + 1) IN
  IF c = 0 THEN 0
  ELSE IF At(s, c) = "}" THEN c
  ELSE LET d == NextBrace(s, c + 1)
       IN IF d = 0 \/ At(s, d) # "}" THEN 0 ELSE NestedScan(s, d)

\* re.search of that pattern (summarizer.py line 79): group 0, None if none
NestedGroup(s) ==
  LET b == First({k \in 1..Len(s) : At(s, k) = "{" /\ NestedScan(s, k) > 0})
  IN IF b = 0 THEN None ELSE SubSeq(s, b, NestedScan(s, b))

\* re.search(r'\{.*\}') (digest.py line 102): group 0, None if none
GreedyGroup(s) ==
  LET b == First({k \in 1..Len(s) : At(s, k) = "{"})
      e == Last({k \in 1..Len(s) : At(s, k) = "}"})
  IN IF b = 0 \/ e < b THEN None ELSE SubSeq(s, b, e)

\* json.loads of a group, NoParse when the search found nothing
LoadsGroup(g) == IF g = None THEN NoParse ELSE json_loads(g)

\* SummarizerService._parse_json_response on the text of the response
summarizer_parse_text(text) ==
  IF json_loads(text).ok THEN json_loads(text).val
  ELSE IF LoadsGroup(FencedGroup(text)).ok THEN LoadsGroup(FencedGroup(text)).val
  ELSE IF LoadsGroup(NestedGroup(text)).ok THEN LoadsGroup(NestedGroup(text)).val
  ELSE DefaultStructure([text |-> text])

\* DigestService._parse_json_response on the text of the response
digest_parse_text(text) ==
  IF json_loads(text).ok THEN json_loads(text).val
  ELSE IF LoadsGroup(FencedGroup(text)).ok THEN LoadsGroup(FencedGroup(text)).val
  ELSE IF LoadsGroup(GreedyGroup(text)).ok THEN LoadsGroup(GreedyGroup(text)).val
  ELSE JObj(<<>>)

\* The bodies a response wraps: JSON objects, a JSON array, and texts
\* json.loads rejects.
Bodies ==
  {"{\"overview\": \"ov\"}",
   "{\"overview\": \"ov\", \"themes\": [\"t1\", \"t2\"]}",
   "{\"overview\": \"ov\", \"topics\": [{\"name\": \"n\"}]}",
   "{\"overview\": \"f(x) { g } ok\"}",
   "{\"overview\": \"end the block with } ~~~ then\"}",
   "{ }",
   "[\"t1\"]",
   "{\"overview\": \"ov\"",
   "{overview: ov}",
   "I cannot help",
   ""}

Wraps == {"bare", "fenced json", "fenced", "prose", "fenced prose"}

\* The response text that wraps a body.
Wrapped(wrap, body) ==
  CASE wrap = "bare" -> body
    [] wrap = "fenced json" -> Fence \o "json\n" \o body \o "\n" \o Fence
    [] wrap = "fenced" -> Fence \o body \o Fence
    [] wrap = "prose" -> "Here it is: " \o body \o " Hope it helps."
    [] wrap = "fenced prose" ->
         "Here it is:\n" \o Fence \o "json\n" \o body \o "\n" \o Fence \o "\nDone."

RECURSIVE TextsOf(_)
\* every text of exactly n characters over "a", "b" and the blank
TextsOf(n) ==
  IF n = 0 THEN {""}
  ELSE {t \o c : t \in TextsOf(n - 1), c \in {"a", "b", " "}}

ChunkTranscripts == UNION {TextsOf(n) : n \in 0..MaxTranscript}

\* --------------------------------------------------------- parse_duration
\* Optional[int]: null, or a number of seconds
NoSeconds == [null |-> TRUE]
Seconds(n) == [null |-> FALSE, seconds |-> n]

DigitValue ==
  "0" :> 0 @@ "1" :> 1 @@ "2" :> 2 @@ "3" :> 3 @@ "4" :> 4 @@
  "5" :> 5 @@ "6" :> 6 @@ "7" :> 7 @@ "8" :> 8 @@ "9" :> 9

RECURSIVE DigitsValue(_, _)
\* the number the first n characters of s write, underscores skipped
DigitsValue(s, n) ==
  IF n = 0 THEN 0
  ELSE IF At(s, n) = "_" THEN DigitsValue(s, n - 1)
  ELSE DigitsValue(s, n - 1) * 10 + DigitValue[At(s, n)]

\* int(s) for a str: white space around, an optional sign, digits with
\* single underscores between them; NoSeconds stands for ValueError.
PyInt(s) ==
  LET l == First({k \in 1..Len(s) : At(s, k) \notin SpaceChars})
      r == Last({k \in 1..Len(s) : At(s, k) \notin SpaceChars})
      signed == l > 0 /\ At(s, l) \in {"+", "-"}
      from == IF signed THEN l + 1 ELSE l
      body == SubSeq(s, from, r)
      wellFormed ==
        /\ Len(body) > 0
        /\ \A k \in 1..Len(body) :
             \/ At(body, k) \in DOMAIN DigitValue
             \/ /\ At(body, k) = "_"
                /\ At(body, k - 1) \in DOMAIN DigitValue
                /\ At(body, k + 1) \in DOMAIN DigitValue
  IN IF l = 0 \/ from > r \/ ~wellFormed THEN NoSeconds
     ELSE IF At(s, l) = "-" THEN Seconds(0 - DigitsValue(body, Len(body)))
     ELSE Seconds(DigitsValue(body, Len(body)))

RECURSIVE SplitColon(_, _)
\* duration_str.split(":") from position i on
SplitColon(s, i) ==
  LET c == First({k \in i..Len(s) : At(s, k) = ":"})
  IN IF c = 0 THEN <<SubSeq(s, i, Len(s))>>
     ELSE <<SubSeq(s, i, c - 1)>> \o SplitColon(s, c + 1)

\* Faulty variant: the hours counted as minutes.
hours_as_minutes(hours, minutes, seconds) == hours * 60 + minutes * 60 + seconds

\* feed_parser.py line 48
TotalSeconds(hours, minutes, seconds) == hours * 3600 + minutes * 60 + seconds

\* FeedParser.parse_duration
parse_duration(duration_str) ==
  IF duration_str = "" THEN NoSeconds
  ELSE IF ~PyInt(duration_str).null THEN PyInt(duration_str)
  ELSE LET parts == SplitColon(duration_str, 1)
           ints == [k \in 1..Len(parts) |-> PyInt(parts[k])]
       IN IF Len(parts) = 3 /\ \A k \in 1..3 : ~ints[k].null
            THEN Seconds(TotalSeconds(ints[1].seconds, ints[2].seconds,
                                      ints[3].seconds))
          ELSE IF Len(parts) = 2 /\ \A k \in 1..2 : ~ints[k].null
            THEN Seconds(TotalSeconds(0, ints[1].seconds, ints[2].seconds))
          ELSE NoSeconds

\* The texts between the colons of a duration.
DurationParts == {"", "5", "02", "05", "01", "125", "1x", "-5", " 7 ", "2.5", "1_0"}

RECURSIVE PartLists(_)
\* every list of n parts
PartLists(n) ==
  IF n = 0 THEN {<<>>}
  ELSE {Append(l, p) : l \in PartLists(n - 1), p \in DurationParts}

RECURSIVE JoinColon(_)
\* the duration text with the given parts
JoinColon(parts) ==
  IF Len(parts) = 1 THEN parts[1]
  ELSE parts[1] \o ":" \o JoinColon(Tail(parts))

\* parse_duration is about to be called
DurationInput(parts) ==
  [kind |-> "duration", called |-> FALSE, parts |-> parts,
   duration_str |-> JoinColon(parts)]

\* parse_duration returns
CallDuration ==
  /\ probe.kind = "duration" /\ ~probe.called
  /\ probe' = [kind |-> "duration", called |-> TRUE, parts |-> probe.parts,
               duration_str |-> probe.duration_str,
               duration_seconds |-> parse_duration(probe.duration_str)]
  /\ UNCHANGED <<episodes, analysis, tasks, files, lastCall, returned, digests, podcasts>>

\* ------------------------------------------- calls of the text functions
\* _parse_json_response (both services) is about to be called on a response
ParseInput(wrap, body) ==
  [kind |-> "parse", called |-> FALSE, wrap |-> wrap, body |-> body,
   text |-> Wrapped(wrap, body)]

\* _chunk_transcript is about to be called
ChunkInput(transcript) ==
  [kind |-> "chunk", called |-> FALSE, transcript |-> transcript]

\* summarizer.py lines 124-217: the language-model calls of analyze when
\* none raises, in order: the single call on the transcript (line 129), or
\* one call per chunk (lines 160-185) and the synthesis call over the
\* answers to the parts in the order of the list (lines 188-215).
AnalyzeCalls(transcript) ==
  LET chunks == _chunk_transcript(transcript)
  IN IF Len(chunks) = 1
       THEN <<[call |-> "single", part |-> 0, input |-> transcript,
               results |-> <<>>]>>
     ELSE [i \in 1..Len(chunks) |->
             [call |-> "chunk", part |-> i, input |-> chunks[i],
              results |-> <<>>]]
          \o <<[call |-> "synthesis", part |-> 0, input |-> "",
                results |-> [i \in 1..Len(chunks) |-> i]]>>

\* analyze is about to be called
AnalyzeInput(transcript) ==
  [kind |-> "analyze", called |-> FALSE, transcript |-> transcript]

\* regenerate_image is about to rebuild the prompt generate_digest stored
RegenerateInput(artist, description, new_artist) ==
  [kind |-> "regenerate", called |-> FALSE, artist |-> artist,
   description |-> description, new_artist |-> new_artist,
   image_prompt |-> ImagePrompt(artist, description)]

InitText ==
  /\ episodes = <<>>
  /\ analysis = <<>>
  /\ tasks = <<>>
  /\ files = {}
  /\ lastCall = NoCall
  /\ returned = NoResponse
  /\ digests = <<>>
  /\ podcasts = <<>>
  /\ probe \in {ParseInput(w, b) : w \in Wraps, b \in Bodies}
         \cup {ChunkInput(t) : t \in ChunkTranscripts}
         \cup {AnalyzeInput(t) : t \in ChunkTranscripts}
         \cup {RegenerateInput(a, d, n) :
                 a \in ARTISTS, d \in ImageDescriptions, n \in RegenerateArtists}
         \cup {DurationInput(l) : l \in UNION {PartLists(n) : n \in 1..MaxParts}}

\* both parsers return
CallParse ==
  /\ probe.kind = "parse" /\ ~probe.called
  /\ probe' = [kind |-> "parse", called |-> TRUE, wrap |-> probe.wrap,
               body |-> probe.body, text |-> probe.text,
               episode |-> summarizer_parse_text(probe.text),
               digest |-> digest_parse_text(probe.text)]
  /\ UNCHANGED <<episodes, analysis, tasks, files, lastCall, returned, digests, podcasts>>

\* _chunk_transcript returns
CallChunk ==
  /\ probe.kind = "chunk" /\ ~probe.called
  /\ probe' = [kind |-> "chunk", called |-> TRUE,
               transcript |-> probe.transcript,
               chunks |-> _chunk_transcript(probe.transcript)]
  /\ UNCHANGED <<episodes, analysis, tasks, files, lastCall, returned, digests, podcasts>>

\* analyze returns, all its language-model calls having returned
CallAnalyzeText ==
  /\ probe.kind = "analyze" /\ ~probe.called
  /\ probe' = [kind |-> "analyze", called |-> TRUE,
               transcript |-> probe.transcript,
               calls |-> AnalyzeCalls(probe.transcript)]
  /\ UNCHANGED <<episodes, analysis, tasks, files, lastCall, returned, digests, podcasts>>

\* line 313 of regenerate_image has run
CallRegenerate ==
  /\ probe.kind = "regenerate" /\ ~probe.called
  /\ probe' = [kind |-> "regenerate", called |-> TRUE, artist |-> probe.artist,
               description |-> probe.description,
               new_artist |-> probe.new_artist,
               image_prompt |-> probe.image_prompt,
               new_prompt |-> new_prompt(probe.image_prompt, probe.new_artist)]
  /\ UNCHANGED <<episodes, analysis, tasks, files, lastCall, returned, digests, podcasts>>

NextText ==
  \/ CallParse
  \/ CallChunk
  \/ CallAnalyzeText
  \/ CallRegenerate
  \/ CallDuration

SpecText == InitText /\ [][NextText]_vars

\* ------------------------------------------- invocations without a row
\* What a background invocation leaves for its caller: whether it raised
\* and how many external calls it made.
TaskReturn(op, id, raised, calls) ==
  [op |-> op, id |-> id, raised |-> raised, external_calls |-> calls]

\* process_digest, lines 55-59 and 166-167, when no row has the id.
process_digest_missing(digest_id) ==
  /\ digest_id \notin DigestIds
  /\ returned = NoResponse
  /\ returned' = TaskReturn("process_digest", digest_id, FALSE, 0)
  /\ UNCHANGED <<episodes, analysis, tasks, files, lastCall, digests, probe, podcasts>>

\* Every stored table, and one process_episode invocation queued for an id
\* that has a row or for the id after the last row (its row was deleted
\* with its podcast before the task ran).
InitMissing ==
  /\ episodes \in [1..NumRows -> StoredRows]
  /\ analysis = [e \in 1..NumRows |->
                   IF episodes[e].status = "completed"
                     THEN Upsert(NoRow, StructuredAnalysis(RespFull))
                     ELSE NoRow]
  /\ tasks \in {<<NewTask(e)>> : e \in 1..(NumRows + 1)}
  /\ files = {}
  /\ lastCall = NoCall
  /\ returned = NoResponse
  /\ digests = <<>>
  /\ podcasts = TwoPodcasts
  /\ probe = NoProbe

NextMissing ==
  \/ \E t \in TaskIds : TaskStart(t) /\ UNCHANGED <<digests, probe, podcasts>>
  \/ \E d \in 1..MaxDigests : process_digest_missing(d)

SpecMissing == InitMissing /\ [][NextMissing]_vars

\* ================================================================ feeds
\* routers/podcasts.py and main.py: the operations that ingest a feed.
\* FeedParser.parse is not awaited, so each operation runs as one step.

\* feed_parser.py line 131: the guid of an entry, never empty (the audio
\* url stands in for a missing id).
FeedGuids == {"g1", "g2"}
FeedUrls == {"u1", "u2"}

\* FeedParser.parse raised (feed_parser.py lines 100-104).
ParseFailed == [ok |-> FALSE, episodes |-> <<>>]

\* FeedParser.parse returned: the guids of ParsedFeed.episodes, in the
\* order of the feed's entries.
ParsedFeed(entries) == [ok |-> TRUE, episodes |-> entries]

RECURSIVE EntryLists(_)
\* every list of n entries
EntryLists(n) ==
  IF n = 0 THEN {<<>>}
  ELSE {Append(l, g) : l \in EntryLists(n - 1), g \in FeedGuids}

\* What a feed can hold when it is fetched.
Feeds ==
  {ParseFailed} \cup
  {ParsedFeed(l) : l \in UNION {EntryLists(n) : n \in 0..MaxEntries}}

\* models.Episode(...) of podcasts.py lines 56-64, 274-282 and main.py
\* lines 46-54.
FeedEpisode(podcast_id, guid) ==
  [podcast_id |-> podcast_id, guid |-> guid, published_at |-> NoDate,
   status |-> "pending", processing_step |-> None, transcript |-> None,
   summary |-> None]

PodcastIds == 1..Len(podcasts)

\* podcasts.py lines 262-266, main.py lines 34-38.
existing_guids(podcast_id) ==
  {episodes[e].guid : e \in {x \in Episodes :
                               /\ episodes[x].podcast_id = podcast_id
                               /\ Truthy(episodes[x].guid)}}

\* podcasts.py lines 270-284, main.py lines 42-56: the rows the loop adds,
\* tested against the guids read before the loop.
NewEpisodes(podcast_id, entries) ==
  LET existing == existing_guids(podcast_id)
      kept == Ascending({i \in 1..Len(entries) :
                           ~(Truthy(entries[i]) /\ entries[i] \in existing)})
  IN [k \in 1..Len(kept) |-> FeedEpisode(podcast_id, entries[kept[k]])]

\* lastCall of a feed operation: the podcast it refreshed and the feed it
\* read, when it was a refresh_podcast that reached the loop.
FeedCall(op, podcast_id, parsed) ==
  [op |-> op, podcast_id |-> podcast_id, parsed |-> parsed]

\* add_podcast_from_feed, podcasts.py lines 18-70.
add_podcast_from_feed(feed_url, parsed) ==
  /\ IF \/ \E p \in PodcastIds : podcasts[p].feed_url = feed_url
        \/ ~parsed.ok
       THEN UNCHANGED <<podcasts, episodes>>
       ELSE /\ podcasts' = Append(podcasts, [feed_url |-> feed_url])
            /\ episodes' = episodes \o
                 [i \in 1..Len(parsed.episodes) |->
                    FeedEpisode(Len(podcasts) + 1, parsed.episodes[i])]
  /\ lastCall' = FeedCall("add", 0, parsed)
  /\ UNCHANGED <<analysis, tasks, files, returned, digests, probe>>

\* refresh_podcast, podcasts.py lines 240-288.
refresh_podcast(podcast_id, parsed) ==
  /\ IF podcast_id \notin PodcastIds \/ ~parsed.ok
       THEN /\ UNCHANGED episodes
            /\ lastCall' = FeedCall("refresh failed", podcast_id, parsed)
       ELSE /\ episodes' = episodes \o NewEpisodes(podcast_id, parsed.episodes)
            /\ lastCall' = FeedCall("refresh", podcast_id, parsed)
  /\ UNCHANGED <<podcasts, analysis, tasks, files, returned, digests, probe>>

RECURSIVE RefreshFrom(_, _)
\* main.py lines 28-64: the rows the loop over the podcasts adds from
\* podcast p on; a feed that fails is passed over (lines 62-64).
RefreshFrom(p, parsedOf) ==
  IF p > Len(podcasts) THEN <<>>
  ELSE (IF parsedOf[p].ok THEN NewEpisodes(p, parsedOf[p].episodes) ELSE <<>>)
       \o RefreshFrom(p + 1, parsedOf)

\* refresh_all_feeds, main.py lines 21-69.
refresh_all_feeds(parsedOf) ==
  /\ episodes' = episodes \o RefreshFrom(1, parsedOf)
  /\ lastCall' = FeedCall("refresh all", 0, ParseFailed)
  /\ UNCHANGED <<podcasts, analysis, tasks, files, returned, digests, probe>>

\* An empty database.
InitFeed ==
  /\ episodes = <<>>
  /\ analysis = <<>>
  /\ tasks = <<>>
  /\ files = {}
  /\ lastCall = NoCall
  /\ returned = NoResponse
  /\ digests = <<>>
  /\ probe = NoProbe
  /\ podcasts = <<>>

NextFeed ==
  \/ \E u \in FeedUrls, f \in Feeds : add_podcast_from_feed(u, f)
  \/ \E p \in 1..(Len(podcasts) + 1), f \in Feeds : refresh_podcast(p, f)
  \/ \E parsedOf \in [PodcastIds -> Feeds] : refresh_all_feeds(parsedOf)

SpecFeed == InitFeed /\ [][NextFeed]_vars

\* ======================================================== the properties
NewTasks == SubSeq(tasks', Len(tasks) + 1, Len(tasks'))
InFlightFor(e) == {t \in TaskIds : tasks[t].episode = e /\ tasks[t].pc \in InFlight}

\* C1: in every reachable state and for every episode, processing_step is
\* non-null if and only if status = "processing".
C1_StepIffProcessing ==
  \A e \in Episodes :
    (episodes[e].processing_step # None) <=> (episodes[e].status = "processing")

\* C2: at most one process_episode task is in flight for the same episode
\* at any time.
C2_OneTaskPerEpisode ==
  \A e \in Episodes : Cardinality(InFlightFor(e)) <= 1

\* C3: a batch_analyze call that directly follows a batch_analyze call over
\* the same selection (only task steps in between) adds no task: every
\* episode the first call admitted is enqueued once, by the first call.
C3_SecondBatchAddsNothing ==
  lastCall.again => lastCall.enqueued = {}

\* C3 witness: the second call has been made while a task of the first
\* call was already downloading.
C3_Witness ==
  /\ lastCall.again
  /\ \E t \in TaskIds : tasks[t].pc = "downloading"

\* C4: whenever an episode is completed, its EpisodeAnalysis row exists and
\* every list-valued field of the row is a sequence, never null.
C4_CompletedHasLists ==
  \A e \in Episodes :
    episodes[e].status = "completed" =>
      /\ analysis[e].present
      /\ \A k \in ListFields : IsList(analysis[e].lists[k])

\* C5: a finished run that reached the download step has had its transient
\* audio file removed exactly once, and the file is no longer in storage.
C5_FileRemovedOnce ==
  \A t \in TaskIds :
    (tasks[t].pc = "done" /\ tasks[t].created) =>
      (tasks[t].unlinks = 1 /\ t \notin files)

\* C5 witness: a run that failed at the fetch and a run that failed at the
\* analysis have both finished.
C5_Witness ==
  /\ \E t \in TaskIds : tasks[t].pc = "done" /\ tasks[t].stage = "analyze"
  /\ \E t \in TaskIds : tasks[t].pc = "done" /\ tasks[t].stage = "download"

C7_TranscriptOfTheRunKept ==
  [][\A t \in TaskIds :
       (tasks[t].pc = "analyzing" /\ tasks'[t].outcome = "failed") =>
         episodes'[tasks[t].episode].transcript = tasks[t].transcript]_vars

\* No episode of the podcast was published later than e (a null
\* published_at counts as earlier than every date).
IsLatestOf(e, podcast) ==
  \A o \in Episodes :
    episodes[o].podcast_id = podcast =>
      episodes[o].published_at <= episodes[e].published_at

\* C8: a batch_analyze call with period = latest selects exactly one episode
\* for every podcast that has an episode in the (optionally filtered) set,
\* the one with the greatest published_at of that podcast.
C8_LatestOnePerPodcast ==
  [][\A r \in Requests, now \in Clock :
       (r.period = "latest" /\ CallBatch(r, now)) =>
         LET sel == Range(returned'.episode_ids)
             filtered == {e \in Episodes :
                            ListTruthy(r.podcast_ids)
                              => ListHas(r.podcast_ids, episodes[e].podcast_id)}
         IN \A p \in {episodes[e].podcast_id : e \in filtered} :
              /\ Cardinality({e \in sel : episodes[e].podcast_id = p}) = 1
              /\ \A e \in sel : episodes[e].podcast_id = p => IsLatestOf(e, p)]_vars

\* C9: a batch_analyze call adds one queued task for each selected episode
\* that is pending at the call and for no other, sets exactly those
\* episodes to processing, and changes nothing else in the tables.
C9_EnqueuesExactlyPending ==
  [][(returned.op = "none" /\ returned'.op = "batch") =>
       LET sel == Range(returned'.episode_ids)
           pend == {e \in sel : episodes[e].status = "pending"}
       IN /\ Len(tasks') = Len(tasks) + Cardinality(pend)
          /\ SubSeq(tasks', 1, Len(tasks)) = tasks
          /\ {NewTasks[i].episode : i \in 1..Len(NewTasks)} = pend
          /\ \A i \in 1..Len(NewTasks) : NewTasks[i].pc = "queued"
          /\ \A e \in pend :
               episodes'[e] = [episodes[e] EXCEPT !.status = "processing"]
          /\ \A e \in Episodes \ pend : episodes'[e] = episodes[e]
          /\ analysis' = analysis
          /\ files' = files]_vars

\* C9 witness: a call has returned that enqueued a pending episode and
\* left a failed episode of its selection alone.
C9_Witness ==
  /\ returned.op = "batch"
  /\ Len(tasks) = 1
  /\ returned.failed = 1
  /\ \E e \in Range(returned.episode_ids) : episodes[e].status = "failed"

\* C10: the summary of a batch_analyze call reports, over the selected
\* episodes as they were before the call, processing = pending + processing,
\* completed, failed, total_episodes = the size of the selection, and
\* episode_ids = the selected episodes, each once.
C10_SummaryCounts ==
  [][(returned.op = "none" /\ returned'.op = "batch") =>
       LET ids == returned'.episode_ids
           sel == Range(ids)
           was(st) == Cardinality({e \in sel : episodes[e].status = st})
       IN /\ returned'.processing = was("pending") + was("processing")
          /\ returned'.completed = was("completed")
          /\ returned'.failed = was("failed")
          /\ returned'.total_episodes = Cardinality(sel)
          /\ Len(ids) = Cardinality(sel)
          /\ sel \subseteq Episodes
          /\ \E r \in Requests, now \in Clock : sel = SelectEpisodes(r, now)]_vars

\* C10 witness: a call has returned whose selection held a pending and a
\* processing episode.
C10_Witness ==
  /\ returned.op = "batch"
  /\ returned.pending = 1
  /\ returned.processing = 2
  /\ returned.total_episodes = 2

\* C11: reset_stuck_episodes sets every processing or failed episode to
\* pending with a null processing_step, leaves every pending or completed
\* episode unchanged, and returns the number of episodes it reset.
C11_ResetStuck ==
  [][(returned.op = "none" /\ returned'.op = "reset") =>
       LET was == {e \in Episodes : episodes[e].status \in {"processing", "failed"}}
       IN /\ \A e \in was :
               episodes'[e] = [episodes[e] EXCEPT !.status = "pending",
                                                  !.processing_step = None]
          /\ \A e \in Episodes \ was : episodes'[e] = episodes[e]
          /\ returned'.reset = Cardinality(was)
          /\ UNCHANGED <<analysis, tasks, files>>]_vars

\* C11 witness: a call has returned that reset one episode and found a
\* completed one.
C11_Witness ==
  /\ returned.op = "reset"
  /\ returned.reset = 1
  /\ \E e \in Episodes : episodes[e].status = "completed"

\* C12: analyze_episode enqueues a task and sets processing only for an
\* episode that is pending or failed; for an episode that is processing or
\* completed it enqueues nothing and changes nothing.
C12_AdmitsOnlyPendingOrFailed ==
  [][\A p \in Podcasts, e \in Episodes :
       (analyze_episode(p, e) /\ episodes[e].status \in {"processing", "completed"})
         => UNCHANGED <<episodes, tasks>>]_vars

\* The completed episodes with an analysis in the period and the podcast
\* filter of digest d.
QualifyingFor(d) == WithAnalysis(CollectEpisodes(digests[d]))

\* C13: a digest for which no completed episode with an analysis lies in
\* its period and podcast filter never reaches the synthesis call, and when
\* its run ends without an exception it is completed with episode_count 0,
\* the fixed no-episodes summary and a null step and detail.
C13_NoEpisodesDigest ==
  \A d \in DigestIds :
    QualifyingFor(d) = {} =>
      /\ digests[d].synth_calls = 0
      /\ digests[d].pc \notin {"synthesizing", "painting"}
      /\ (digests[d].pc = "done" /\ digests[d].outcome # "failed") =>
           /\ digests[d].status = "completed"
           /\ digests[d].episode_count = 0
           /\ digests[d].summary = "No analyzed episodes found in this time period."
           /\ digests[d].processing_step = None
           /\ digests[d].processing_detail = None

\* C13 witness: a run has ended on a table that holds a completed episode,
\* but none in the period of the digest.
C13_Witness ==
  \E d \in DigestIds :
    /\ QualifyingFor(d) = {}
    /\ digests[d].pc = "done"
    /\ digests[d].status = "completed"
    /\ \E e \in Episodes : episodes[e].status = "completed"

\* C14: whenever a digest is completed, its episode_count is the number of
\* DigestEpisode rows linked to it.
C14_CountIsLinks ==
  \A d \in DigestIds :
    digests[d].status = "completed" =>
      digests[d].episode_count = Len(digests[d].links)

\* C14 witness: a digest over two episodes is completed.
C14_Witness ==
  \E d \in DigestIds :
    /\ digests[d].status = "completed"
    /\ digests[d].episode_count = 2

\* C15: when the image call fails after the language-model call succeeded,
\* the digest ends completed with a null image_url and with the summary
\* and the list fields of the synthesis result.
C15_ImageFailureKeepsText ==
  [][\A d \in DigestIds :
       ImageReturn(d, None) =>
         /\ digests'[d].status = "completed"
         /\ digests'[d].image_url = None
         /\ digests'[d].summary = PyText(Get(digests[d].result, "summary", JStr("")))
         /\ \A k \in DigestListFields :
              digests'[d].texts[k] = Get(digests[d].result, k, JList(<<>>))]_vars

\* C15 witness: a digest whose image was requested and not delivered is
\* completed with its text.
C15_Witness ==
  \E d \in DigestIds :
    /\ digests[d].status = "completed"
    /\ digests[d].image_prompt # None
    /\ digests[d].image_url = None
    /\ digests[d].summary = "digest summary"
    /\ digests[d].texts["common_themes"] = JList(<<"th">>)

\* C16: a run of process_digest in which the collection or the synthesis
\* raises ends with status failed, a null step and detail, and the summary
\* "Error: " followed by the exception message.
C16_DigestFailureRecorded ==
  [][\A d \in DigestIds :
       /\ \A m \in DigestCollectErrors \cup SynthErrors :
            (DigestCollectFail(d, m) \/ SynthFail(d, m)) =>
              /\ digests'[d].status = "failed"
              /\ digests'[d].summary = "Error: " \o m
       /\ (digests[d].pc # "done" /\ digests'[d].outcome = "failed") =>
            /\ digests'[d].status = "failed"
            /\ digests'[d].processing_step = None
            /\ digests'[d].processing_detail = None
            /\ digests'[d].summary = "Error: " \o digests'[d].message]_vars

\* C16 witness: a run failed in the synthesis after it had linked episodes.
C16_Witness ==
  \E d \in DigestIds :
    /\ digests[d].status = "failed"
    /\ digests[d].summary = "Error: overloaded"
    /\ digests[d].links # <<>>

\* C17: the statuses a digest has held are pending, processing and then at
\* most one of completed and failed: it is processing before its task runs
\* and no operation changes a completed or failed status.
C17_DigestStatusPath ==
  \A d \in DigestIds :
    /\ digests[d].log \in {<<"pending", "processing">>,
                           <<"pending", "processing", "completed">>,
                           <<"pending", "processing", "failed">>}
    /\ digests[d].status = digests[d].log[Len(digests[d].log)]
    /\ digests[d].pc # "done" => digests[d].status = "processing"

\* C17 witness: the image of a completed digest has been regenerated.
C17_Witness ==
  \E d \in DigestIds :
    /\ digests[d].status = "completed"
    /\ digests[d].image_prompt # digests[d].prompt

\* what a parser returns when every layer fails for the per-episode parser
AllListsEmpty(result) ==
  IsDict(result) /\ \A f \in ListFields :
    f \in DOMAIN result.v /\ result.v[f] = JList(<<>>)

\* no extraction layer of either parser yields JSON from the text
NoLayerParses(text) ==
  /\ ~json_loads(text).ok
  /\ ~LoadsGroup(FencedGroup(text)).ok
  /\ ~LoadsGroup(NestedGroup(text)).ok
  /\ ~LoadsGroup(GreedyGroup(text)).ok

\* C18: when the response is a fenced code block wrapping the text of a
\* valid JSON object, both _parse_json_response methods return the object
\* that parsing the wrapped text directly yields; when no layer can parse
\* JSON from the response, the per-episode parser returns the default
\* structure with every list field empty and the digest parser returns a
\* value.
C18_JsonExtraction ==
  probe.kind = "parse" /\ probe.called =>
    LET direct == json_loads(probe.body) IN
    /\ ( /\ probe.wrap \in {"fenced json", "fenced"}
         /\ direct.ok /\ IsDict(direct.val)
         => probe.episode = direct.val /\ probe.digest = direct.val )
    /\ ( NoLayerParses(probe.text)
         => /\ probe.episode = DefaultStructure([text |-> probe.text])
            /\ AllListsEmpty(probe.episode)
            /\ probe.digest = JObj(<<>>) )

RECURSIVE WordsOf(_)
\* the words of a list of chunks, in order
WordsOf(chunks) ==
  IF chunks = <<>> THEN <<>> ELSE Split(Head(chunks)) \o WordsOf(Tail(chunks))

\* C19: for a transcript longer than the chunk threshold, every chunk
\* _chunk_transcript returns is at most CHUNK_SIZE long and is whole words
\* joined by single spaces, and the words of the chunks in order are the
\* words of the transcript in order.
C19_ChunksWithinSize ==
  probe.kind = "chunk" /\ probe.called /\ Len(probe.transcript) > ChunkSize =>
    /\ \A i \in 1..Len(probe.chunks) :
         /\ Len(probe.chunks[i]) <= ChunkSize
         /\ Join(Split(probe.chunks[i])) = probe.chunks[i]
    /\ WordsOf(probe.chunks) = Split(probe.transcript)

\* C20: for every prompt generate_digest can have stored, the prompt
\* regenerate_image builds is the stored prompt with the new artist in the
\* place of the old one and every other character unchanged.
C20_OnlyArtistReplaced ==
  probe.kind = "regenerate" /\ probe.called =>
    probe.new_prompt =
      ImagePrompt([name |-> probe.new_artist, style |-> probe.artist.style],
                  probe.description)

\* the artist a stored prompt names right after "Painting in the "
NamesArtist(prompt, artist) ==
  HasAt(prompt, Len("Painting in the ") + 1, Marker \o artist \o ".")

\* C21: whenever regenerate_image is called on a digest that has a stored
\* prompt, the artist it chooses differs from the artist that prompt names.
C21_ChoosesDifferentArtist ==
  returned.op = "regenerate" /\ returned.status_code \in {200, 500} =>
    ~NamesArtist(returned.stored, returned.new_artist)

\* C22: regenerate_image answers an error and changes neither image_url nor
\* image_prompt when the digest has no stored prompt or the image call
\* returns nothing; otherwise it stores the new asset together with the
\* prompt that was handed to the image call.
C22_RegenerateAllOrNothing ==
  [][\A d \in DigestIds, a \in DigestRegenerateArtists, u \in ImageUrls :
       regenerate_image(d, a, u) =>
         IF ~Truthy(digests[d].image_prompt) \/ u = None
           THEN /\ returned'.status_code \in {400, 500}
                /\ digests'[d].image_url = digests[d].image_url
                /\ digests'[d].image_prompt = digests[d].image_prompt
           ELSE /\ returned'.status_code = 200
                /\ returned'.sent # None
                /\ digests'[d].image_url = u
                /\ digests'[d].image_prompt = returned'.sent
                /\ returned'.image_url = u
                /\ returned'.image_prompt = returned'.sent]_vars

\* a regeneration succeeded on a digest whose first image call had failed,
\* one answered 400 and one answered 500
C22_Witness ==
  /\ returned.op = "regenerate" /\ returned.status_code = 200
  /\ digests[returned.digest_id].image_url # None
  /\ digests[returned.digest_id].image_prompt = returned.sent
  /\ returned.sent # returned.stored

C22_WitnessNoPrompt ==
  returned.op = "regenerate" /\ returned.status_code = 400

C22_WitnessNoImage ==
  /\ returned.op = "regenerate" /\ returned.status_code = 500
  /\ digests[returned.digest_id].image_prompt = returned.stored

\* the integer each part text writes, as a reader of the feed takes it
PartSeconds ==
  "" :> NoSeconds @@ "5" :> Seconds(5) @@ "02" :> Seconds(2) @@
  "05" :> Seconds(5) @@ "01" :> Seconds(1) @@ "125" :> Seconds(125) @@
  "1x" :> NoSeconds @@ "-5" :> Seconds(0 - 5) @@ " 7 " :> Seconds(7) @@
  "2.5" :> NoSeconds @@ "1_0" :> Seconds(10)

\* C23: parse_duration returns the integer for a text of integer seconds,
\* m*60+s for MM:SS, h*3600+m*60+s for HH:MM:SS, and null for every other
\* text: empty, with a part that is no integer, or with more than three
\* parts.
C23_ParseDuration ==
  probe.kind = "duration" /\ probe.called =>
    LET parts == probe.parts
        n == Len(parts)
        v == [k \in 1..n |-> PartSeconds[parts[k]]]
        numeric == \A k \in 1..n : ~v[k].null
    IN probe.duration_seconds =
         IF n = 1 /\ numeric THEN v[1]
         ELSE IF n = 2 /\ numeric THEN Seconds(v[1].seconds * 60 + v[2].seconds)
         ELSE IF n = 3 /\ numeric
           THEN Seconds(v[1].seconds * 3600 + v[2].seconds * 60 + v[3].seconds)
         ELSE NoSeconds

\* "01:02:05" gave 3725
C23_Witness ==
  /\ probe.kind = "duration" /\ probe.called
  /\ probe.duration_str = "01:02:05"
  /\ probe.duration_seconds = Seconds(3725)

\* C24: an invocation of process_episode or process_digest whose id has no
\* row returns without raising, leaves every episode, analysis, digest and
\* link as it was, makes no external call and marks nothing as failed.
C24_MissingRowIsNoFailure ==
  [][/\ \A t \in TaskIds :
          TaskStart(t) /\ tasks[t].episode \notin Episodes =>
            /\ tasks'[t].pc = "done" /\ tasks'[t].outcome = "missing"
            /\ ~tasks'[t].created /\ tasks'[t].message = None
            /\ files' = files
            /\ episodes' = episodes /\ analysis' = analysis /\ digests' = digests
      /\ \A d \in 1..MaxDigests :
          process_digest_missing(d) =>
            /\ ~returned'.raised /\ returned'.external_calls = 0
            /\ episodes' = episodes /\ analysis' = analysis /\ digests' = digests
            /\ files' = files]_vars

\* an invocation for a missing episode is over, next to the row of another
\* episode that is still in processing
C24_Witness ==
  /\ \E t \in TaskIds : tasks[t].episode \notin Episodes /\ tasks[t].outcome = "missing"
  /\ \E e \in Episodes : episodes[e].status = "processing"

\* the stages of a run in the order of process_episode
StageOrder == <<"starting", "downloading", "transcribing", "analyzing">>

\* how many of them a run has entered
StagesEntered(task) ==
  CASE task.pc = "queued" -> 0
    [] task.pc = "downloading" -> 2
    [] task.pc = "transcribing" -> 3
    [] task.pc = "analyzing" -> 4
    [] task.pc = "done" /\ task.outcome = "completed" -> 4
    [] task.pc = "done" /\ task.stage = "download" -> 2
    [] task.pc = "done" /\ task.stage = "transcribe" -> 3
    [] task.pc = "done" /\ task.stage = "analyze" -> 4
    [] OTHER -> 0

C27_NoRetry ==
  /\ [](\A t \in TaskIds :
          /\ tasks[t].downloads <= 1
          /\ tasks[t].transcriptions <= 1
          /\ tasks[t].analyses <= 1
          /\ tasks[t].pc = "analyzing" =>
                tasks[t].model_calls <= ModelCalls(tasks[t].transcript))
  /\ [][\A t \in TaskIds :
          /\ \A m \in ModelErrors :
               AnalyzeFail(t, m) =>
                 /\ tasks'[t].pc = "done" /\ tasks'[t].outcome = "failed"
                 /\ tasks'[t].message = m
                 /\ tasks'[t].model_calls = tasks[t].model_calls
                 /\ episodes'[tasks[t].episode].status = "failed"
          /\ tasks[t].pc = "done" => tasks'[t] = tasks[t]]_vars

\* a run failed in its third language-model call, a chunk call or the
\* synthesis call, and made no fourth
C27_Witness ==
  \E t \in TaskIds :
    /\ tasks[t].outcome = "failed" /\ tasks[t].stage = "analyze"
    /\ tasks[t].message \in ModelErrors
    /\ tasks[t].model_calls = 3
    /\ tasks[t].downloads = 1 /\ tasks[t].transcriptions = 1
    /\ tasks[t].analyses = 1

\* The episode is in processing and no run of it is queued or in flight.
Orphaned(e) ==
  /\ episodes[e].status = "processing"
  /\ \A t \in TaskIds : tasks[t].episode = e => tasks[t].pc = "done"

\* C28: an episode left in processing by a run that died with the process
\* stays in processing, with no run, under analyze_episode and
\* batch_analyze; only reset_stuck_episodes takes it out, to pending, and
\* a pending episode is admitted by analyze_episode and by batch_analyze.
C28_StuckUntilReset ==
  /\ [][\A e \in Episodes :
          /\ Orphaned(e) =>
                \/ /\ episodes'[e] = episodes[e]
                   /\ \A t \in 1..Len(tasks') :
                        tasks'[t].episode = e => tasks'[t].pc = "done"
                \/ /\ reset_stuck_episodes
                   /\ episodes'[e].status = "pending"
          /\ (/\ episodes[e].status = "pending"
              /\ \/ analyze_episode(episodes[e].podcast_id, e)
                 \/ \E r \in PipelineRequests, now \in Clock :
                      /\ e \in SelectEpisodes(r, now)
                      /\ batch_analyze(r, now))
               => /\ episodes'[e].status = "processing"
                  /\ \E t \in 1..Len(tasks') :
                       /\ t > Len(tasks)
                       /\ tasks'[t] = NewTask(e)]_vars
  /\ [](\A e \in Episodes :
          episodes[e].status = "pending" =>
            /\ AnalyzeOutcome(episodes[e].podcast_id, e).admit
            /\ Admits(episodes[e]))

\* the episode of the dead run has a run again: it was reset and admitted
C28_Witness ==
  /\ \E t \in TaskIds : tasks[t].episode = 1 /\ tasks[t].pc = "downloading"
  /\ episodes[1].status = "processing"

\* C29: every run on an existing episode, whether or not the row holds a
\* transcript, enters the download stage first and calls the download, and
\* a run that has reached the analysis has made its own download and its
\* own transcription.
C29_NoStageResume ==
  /\ [][\A t \in TaskIds :
          (TaskStart(t) /\ tasks[t].episode \in Episodes) =>
            /\ tasks'[t].pc = "downloading"
            /\ tasks'[t].downloads = 1
            /\ tasks'[t].transcript = None]_vars
  /\ [](\A t \in TaskIds :
          /\ tasks[t].pc = "transcribing" =>
                tasks[t].downloads = 1 /\ tasks[t].transcriptions = 1
          /\ (tasks[t].pc = "analyzing" \/ tasks[t].outcome = "completed") =>
                /\ tasks[t].downloads = 1 /\ tasks[t].transcriptions = 1
                /\ SubSeq(tasks[t].steps, 1, 4) =
                     <<"starting", "downloading", "transcribing", "analyzing">>)

\* a second run of an episode whose first run failed in the analysis,
\* leaving its transcript in the row, has downloaded and transcribed again
C29_Witness ==
  \E t, u \in TaskIds :
    /\ t < u /\ tasks[t].episode = tasks[u].episode
    /\ tasks[t].outcome = "failed" /\ tasks[t].stage = "analyze"
    /\ tasks[u].pc = "analyzing"
    /\ tasks[u].downloads = 1 /\ tasks[u].transcriptions = 1

\* C30: an episode never has more than one EpisodeAnalysis row; the row
\* of an episode appears or changes only in the step in which a run of
\* that episode returns from a successful analysis, and in that one step
\* the overview and the lists of the row take the values of that analysis
\* and the episode becomes completed with its step cleared.
C30_OneRowWrittenWhole ==
  /\ [](\A e \in Episodes : analysis[e].present => analysis[e].rows = 1)
  /\ [][\A e \in Episodes :
          analysis'[e] # analysis[e] =>
            \E t \in TaskIds, r \in Responses :
              /\ tasks[t].episode = e
              /\ AnalyzeReturn(t, r)
              /\ ~StructuredAnalysis(r).raised
              /\ tasks'[t].outcome = "completed"
              /\ analysis'[e].present
              /\ analysis'[e].overview = StructuredAnalysis(r).overview
              /\ analysis'[e].lists = StructuredAnalysis(r).lists
              /\ episodes'[e].status = "completed"
              /\ episodes'[e].processing_step = None
              /\ episodes'[e].summary = StructuredAnalysis(r).raw_summary]_vars

\* two runs of one episode have both completed, the second overwrote the
\* row of the first
C30_Witness ==
  \E t, u \in TaskIds :
    /\ t # u /\ tasks[t].episode = tasks[u].episode
    /\ tasks[t].outcome = "completed" /\ tasks[u].outcome = "completed"
    /\ analysis[tasks[t].episode].present
    /\ analysis[tasks[t].episode].rows = 1

\* The episodes a digest is to link: completed, published within the
\* period, of a podcast of the filter when the digest has one, and with
\* an EpisodeAnalysis row.
ToBeLinked(d) ==
  {e \in Episodes :
     /\ episodes[e].status = "completed"
     /\ episodes[e].published_at # NoDate
     /\ digests[d].period_start <= episodes[e].published_at
     /\ episodes[e].published_at <= digests[d].period_end
     /\ ListTruthy(digests[d].podcast_ids) =>
          \E l \in digests[d].podcast_ids :
            \E i \in 1..Len(l) : l[i] = episodes[e].podcast_id
     /\ analysis[e] # NoRow}

\* C31: the collection of process_digest creates exactly one DigestEpisode
\* link for every episode that is completed, published within the period,
\* of a podcast of the filter when there is one, and has an analysis; an
\* episode without an analysis gets no link and does not fail the run.
C31_LinksAreTheAnalysed ==
  /\ [][\A d \in DigestIds :
          DigestStart(d) =>
            /\ Len(digests'[d].links) = Cardinality(ToBeLinked(d))
            /\ \A e \in Episodes :
                 Cardinality({i \in 1..Len(digests'[d].links) :
                                digests'[d].links[i] = e})
                   = IF e \in ToBeLinked(d) THEN 1 ELSE 0
            /\ digests'[d].outcome # "failed"]_vars
  /\ [](\A d \in DigestIds :
          (digests[d].pc # "queued" /\ digests[d].stage # "collect") =>
            /\ Len(digests[d].links) = Cardinality(ToBeLinked(d))
            /\ \A i \in 1..Len(digests[d].links) :
                 digests[d].links[i] \in ToBeLinked(d))

\* a digest has linked an episode and passed over a completed episode of
\* its period that has no analysis
C31_Witness ==
  \E d \in DigestIds, e \in Episodes :
    /\ digests[d].pc = "synthesizing"
    /\ digests[d].links # <<>>
    /\ episodes[e].status = "completed"
    /\ episodes[e].published_at >= digests[d].period_start
    /\ episodes[e].published_at <= digests[d].period_end
    /\ analysis[e] = NoRow
    /\ \A i \in 1..Len(digests[d].links) : digests[d].links[i] # e

DigestStepOrder == <<"collecting_episodes", "generating_content", "generating_image">>

\* The position of a step in the order of the digest steps.
DigestStepIndex(step) == CHOOSE i \in 1..3 : DigestStepOrder[i] = step

\* C32: the processing_step of a digest is collecting_episodes,
\* generating_content, generating_image or null; the steps a run of
\* process_digest commits go forward in that order and end with null;
\* generating_image comes after generating_content and is written only
\* when the synthesis call has returned and the image is requested; step
\* and detail are null whenever the digest is completed or failed.
C32_DigestStepsForward ==
  /\ [](\A d \in DigestIds :
          LET row == digests[d]
              n == Len(row.steps)
          IN /\ row.processing_step \in
                  {"collecting_episodes", "generating_content",
                   "generating_image", None}
             /\ n > 0 => row.processing_step = row.steps[n]
             /\ \A i \in 1..n :
                  /\ row.steps[i] = None => i = n /\ row.pc = "done"
                  /\ row.steps[i] # None =>
                       /\ row.steps[i] \in {"collecting_episodes",
                            "generating_content", "generating_image"}
                       /\ \A j \in 1..(i - 1) :
                            DigestStepIndex(row.steps[j])
                              < DigestStepIndex(row.steps[i])
                  /\ row.steps[i] = "generating_image" =>
                       i > 1 /\ row.steps[i - 1] = "generating_content"
             /\ row.status \in {"completed", "failed"} =>
                  /\ row.processing_step = None
                  /\ row.processing_detail = None)
  /\ [][\A d \in DigestIds :
          (/\ digests'[d].processing_step = "generating_image"
           /\ digests[d].processing_step # "generating_image") =>
            /\ digests[d].pc = "synthesizing"
            /\ \E r \in DigestResponses, a \in DigestArtists :
                 /\ SynthReturn(d, r, a)
                 /\ ImageWanted(digest_parse_json_response(r))]_vars

\* a digest went through the three steps and is completed
C32_Witness ==
  \E d \in DigestIds :
    /\ digests[d].status = "completed"
    /\ digests[d].steps = <<"collecting_episodes", "generating_content",
                            "generating_image", None>>
    /\ digests[d].processing_step = None
    /\ digests[d].processing_detail = None

\* C33: analyze makes the single call on the whole transcript exactly
\* when the transcript is at most the chunk threshold long; for a longer
\* transcript it makes one call per chunk, in chunk order, and then one
\* synthesis call over the answers in that order; the text sent in a
\* single or a chunk call is at most the threshold long.
C33_AnalyzeModes ==
  (probe.kind = "analyze" /\ probe.called) =>
    LET calls == probe.calls
        chunks == _chunk_transcript(probe.transcript)
        n == Len(chunks)
    IN /\ Len(probe.transcript) <= ChunkSize <=>
            /\ Len(calls) = 1
            /\ calls[1].call = "single"
            /\ calls[1].input = probe.transcript
       /\ Len(probe.transcript) > ChunkSize =>
            /\ Len(calls) = n + 1
            /\ \A i \in 1..n :
                 calls[i].call = "chunk" /\ calls[i].input = chunks[i]
            /\ calls[n + 1].call = "synthesis"
            /\ calls[n + 1].results = [i \in 1..n |-> i]
       /\ \A i \in 1..Len(calls) :
            calls[i].call \in {"single", "chunk"} =>
              Len(calls[i].input) <= ChunkSize

\* C34: when no extraction layer finds JSON in the answer of the digest
\* synthesis, generate_digest does not raise and its result has a leading
\* part of the raw answer as the summary and empty lists; when the answer
\* holds JSON, an object or not, generate_digest does not raise either.
C34_DigestDegradesGracefully ==
  [][\A d \in DigestIds, r \in DigestResponses, a \in DigestArtists :
       SynthReturn(d, r, a) =>
         /\ ~r.valid =>
              /\ digests'[d].outcome = "completed"
              /\ \E n \in 1..Len(r.text) :
                   digests'[d].summary = SubSeq(r.text, 1, n)
              /\ \A k \in DigestListFields :
                   digests'[d].texts[k] = JList(<<>>)
         /\ r.valid => digests'[d].outcome # "failed"]_vars

\* C35: for every period but latest, each episode batch_analyze selects
\* is published inside the window get_period_dates resolves and, when
\* podcast ids are given, belongs to one of them; a custom request selects
\* no episode published after its end_date, with or without a start_date.
\* (An episode without a publication date is not held against the claim.)
C35_SelectionInsideWindow ==
  [][\A r \in Requests, now \in Clock :
       (CallBatch(r, now) /\ r.period # "latest") =>
         LET dates == get_period_dates(r.period, r.start_date, r.end_date, now)
         IN \A i \in 1..Len(returned'.episode_ids) :
              LET row == episodes[returned'.episode_ids[i]]
              IN /\ dates[1] # NoDate => row.published_at >= dates[1]
                 /\ (dates[2] # NoDate /\ row.published_at # NoDate) =>
                      row.published_at <= dates[2]
                 /\ ListTruthy(r.podcast_ids) =>
                      ListHas(r.podcast_ids, row.podcast_id)]_vars

\* C36: after any sequence of add_podcast_from_feed, refresh_podcast and
\* refresh_all_feeds, no two episodes of one podcast have the same guid,
\* and a refresh_podcast that directly follows a refresh_podcast of the
\* same podcast on the same feed adds no episode.
C36_GuidIsDedupKey ==
  /\ [](\A a, b \in Episodes :
          (/\ a # b
           /\ episodes[a].podcast_id = episodes[b].podcast_id)
            => episodes[a].guid # episodes[b].guid)
  /\ [][\A p \in PodcastIds, f \in Feeds :
          (/\ lastCall = FeedCall("refresh", p, f)
           /\ refresh_podcast(p, f))
            => episodes' = episodes]_vars

\* C37: reset_stuck_episodes writes status and processing_step only: the
\* transcript and the summary of every episode, the failure text of a
\* failed run included, and every EpisodeAnalysis row are as before, and
\* the reset episodes are pending.
C37_ResetKeepsRunData ==
  [][reset_stuck_episodes =>
       /\ analysis' = analysis
       /\ \A e \in Episodes :
            /\ episodes'[e].transcript = episodes[e].transcript
            /\ episodes'[e].summary = episodes[e].summary
            /\ episodes'[e].podcast_id = episodes[e].podcast_id
            /\ episodes'[e].published_at = episodes[e].published_at
            /\ episodes[e].status \in {"processing", "failed"} =>
                 /\ episodes'[e].status = "pending"
                 /\ episodes'[e].processing_step = None
            /\ episodes[e].status \notin {"processing", "failed"} =>
                 episodes'[e] = episodes[e]]_vars

\* a pending episode carries the failure text and the transcript of the
\* run that failed before the reset
C37_Witness ==
  \E e \in Episodes :
    /\ episodes[e].status = "pending"
    /\ StartsWith(episodes[e].summary, "Error: ")
    /\ episodes[e].transcript # None

\* C38: a pending episode changes its status or its processing_step only
\* in a step of analyze_episode or batch_analyze that admits it; the run
\* of an episode that reset_stuck_episodes has set to pending writes
\* neither.
C38_PendingLeftOnlyByAdmission ==
  [][\A e \in Episodes :
       (/\ episodes[e].status = "pending"
        /\ \/ episodes'[e].status # "pending"
           \/ episodes'[e].processing_step # episodes[e].processing_step)
         => \/ \E p \in Podcasts : analyze_episode(p, e)
            \/ \E r \in PipelineRequests, now \in Clock :
                 /\ e \in SelectEpisodes(r, now)
                 /\ batch_analyze(r, now)]_vars

\* C39: in every state, for every digest whatever its status, the
\* episode_count is at most the number of its DigestEpisode rows, and no
\* two of its rows are for the same episode.
C39_CountWithinLinks ==
  \A d \in DigestIds :
    /\ digests[d].episode_count <= Len(digests[d].links)
    /\ \A i, j \in 1..Len(digests[d].links) :
         i # j => digests[d].links[i] # digests[d].links[j]

\* a digest failed in its collection after the rows of two episodes were
\* committed: its count is 0
C39_Witness ==
  \E d \in DigestIds :
    /\ digests[d].status = "failed"
    /\ digests[d].stage = "collect"
    /\ Len(digests[d].links) = 2
    /\ digests[d].episode_count = 0

\* C40: in every summary batch_analyze returns, the counts of pending,
\* processing, completed and failed add up to total_episodes.
C40_CountsPartition ==
  returned.op = "batch" =>
    returned.pending + returned.processing + returned.completed
      + returned.failed = returned.total_episodes

====
